---- MODULE Spec2Model ----
(***************************************************************************)
(* Ultima Underworld conversation toolchain: the bytecode VM of            *)
(* uw_cnv_runner.py (UltimaUnderworldVM), its two-pass assembly loader     *)
(* (parse_asm), and the UWScript code generator of                         *)
(* UWScript/uwscript_compiler.py that produces the assembly the VM runs.   *)
(*                                                                         *)
(* A behaviour is one run of the runner's main(): construct the VM, load   *)
(* the strings file, parse the assembly file, initialise memory, execute.  *)
(* Every opcode handler is one action (one iteration of the execute loop). *)
(***************************************************************************)
EXTENDS Integers, Sequences, FiniteSets, TLC

\* ------------------------------------------------------------------ bounds
\* instructions one behaviour may execute (the runner itself has no budget)
MaxSteps == 135
\* calls of resume_conversation the host makes in one behaviour
MaxResumes == 1
\* elseif clauses in the generated if/elseif/else chains
MaxElseifs == 2
\* largest argument value passed to the two-parameter function program
MaxArg == 4

\* --------------------------------------------------------------- maps
EmptyMap == [k \in {} |-> 0]
MapPut(m, k, v) == (k :> v) @@ m
MapGet(m, k, d) == IF k \in DOMAIN m THEN m[k] ELSE d

\* ------------------------------------------------------- assembly text
\* One line of an assembly file: a label definition "name:", an opcode
\* alone, an opcode with a numeric operand, or an opcode with a symbolic
\* operand.
Lbl(name) == [t |-> "label", op |-> name, num |-> 0, sym |-> ""]
I0(op) == [t |-> "op", op |-> op, num |-> 0, sym |-> ""]
I1(op, n) == [t |-> "opnum", op |-> op, num |-> n, sym |-> ""]
IL(op, l) == [t |-> "opsym", op |-> op, num |-> 0, sym |-> l]

get_opcode(opcode_name) ==
  CASE opcode_name = "NOP" -> 0
    [] opcode_name = "OPADD" -> 1
    [] opcode_name = "OPMUL" -> 2
    [] opcode_name = "OPSUB" -> 3
    [] opcode_name = "OPDIV" -> 4
    [] opcode_name = "OPMOD" -> 5
    [] opcode_name = "OPOR" -> 6
    [] opcode_name = "OPAND" -> 7
    [] opcode_name = "OPNOT" -> 8
    [] opcode_name = "TSTGT" -> 9
    [] opcode_name = "TSTGE" -> 10
    [] opcode_name = "TSTLT" -> 11
    [] opcode_name = "TSTLE" -> 12
    [] opcode_name = "TSTEQ" -> 13
    [] opcode_name = "TSTNE" -> 14
    [] opcode_name = "JMP" -> 15
    [] opcode_name = "BEQ" -> 16
    [] opcode_name = "BNE" -> 17
    [] opcode_name = "BRA" -> 18
    [] opcode_name = "CALL" -> 19
    [] opcode_name = "CALLI" -> 20
    [] opcode_name = "RET" -> 21
    [] opcode_name = "PUSHI" -> 22
    [] opcode_name = "PUSHI_EFF" -> 23
    [] opcode_name = "POP" -> 24
    [] opcode_name = "SWAP" -> 25
    [] opcode_name = "PUSHBP" -> 26
    [] opcode_name = "POPBP" -> 27
    [] opcode_name = "SPTOBP" -> 28
    [] opcode_name = "BPTOSP" -> 29
    [] opcode_name = "ADDSP" -> 30
    [] opcode_name = "FETCHM" -> 31
    [] opcode_name = "STO" -> 32
    [] opcode_name = "OFFSET" -> 33
    [] opcode_name = "START" -> 34
    [] opcode_name = "SAVE_REG" -> 35
    [] opcode_name = "PUSH_REG" -> 36
    [] opcode_name = "STRCMP" -> 37
    [] opcode_name = "EXIT_OP" -> 38
    [] opcode_name = "SAY_OP" -> 39
    [] opcode_name = "RESPOND_OP" -> 40
    [] opcode_name = "OPNEG" -> 41
    [] OTHER -> 0

\* words an assembly line occupies: 0 for a label, 2 for an instruction
\* that carries an operand, 1 otherwise
LineWords(line) ==
  IF line.t = "label" THEN 0 ELSE IF line.t = "op" THEN 1 ELSE 2

\* the words lines[lo..hi] occupy
RECURSIVE WordsIn(_, _, _)
WordsIn(lines, lo, hi) ==
  IF lo > hi THEN 0
  ELSE IF lo = hi THEN LineWords(lines[lo])
  ELSE WordsIn(lines, lo, (lo + hi) \div 2)
       + WordsIn(lines, (lo + hi) \div 2 + 1, hi)

\* first pass of parse_asm over lines[lo..hi], whose first line is at word
\* offset at: label -> word offset (a later definition of the same name
\* overwrites the earlier one).  The range is halved rather than walked
\* line by line; the result is the same map.
RECURSIVE FirstPassLabels(_, _, _, _)
FirstPassLabels(lines, lo, hi, at) ==
  IF lo > hi THEN EmptyMap
  ELSE IF lo = hi
       THEN IF lines[lo].t = "label" THEN (lines[lo].op :> at) ELSE EmptyMap
  ELSE FirstPassLabels(lines, (lo + hi) \div 2 + 1, hi,
                       at + WordsIn(lines, lo, (lo + hi) \div 2))
       @@ FirstPassLabels(lines, lo, (lo + hi) \div 2, at)

BranchOps == {"BEQ", "BNE", "BRA"}

_resolve_argument(line, current_pc, lbls) ==
  IF line.t = "opnum" THEN line.num
  ELSE IF line.sym \in DOMAIN lbls
       THEN IF line.op \in BranchOps
            THEN lbls[line.sym] - (current_pc + 2)
            ELSE IF line.op \in {"JMP", "CALL"}
                 THEN lbls[line.sym]
                 ELSE 0
       ELSE 0

\* second pass of parse_asm over lines[lo..hi]: the code words, the first
\* of them at word offset at (the pass's pc)
RECURSIVE SecondPassCode(_, _, _, _, _)
SecondPassCode(lines, lo, hi, at, lbls) ==
  IF lo > hi THEN << >>
  ELSE IF lo = hi
       THEN CASE lines[lo].t = "label" -> << >>
              [] lines[lo].t = "op" -> << get_opcode(lines[lo].op) >>
              [] OTHER -> << get_opcode(lines[lo].op),
                             _resolve_argument(lines[lo], at, lbls) >>
  ELSE SecondPassCode(lines, lo, (lo + hi) \div 2, at, lbls)
       \o SecondPassCode(lines, (lo + hi) \div 2 + 1, hi,
                         at + WordsIn(lines, lo, (lo + hi) \div 2), lbls)

\* ------------------------------------------------------------ the VM
VARIABLES
  program,            \* index of the program named on the command line
  phase,              \* position of the run: source, compile_error, files,
                      \* strings_loaded, parsed, initialized, executing,
                      \* returned, raised
  asm_file,           \* the assembly file: its String Block header and lines
  strings_file,       \* the strings file: block id -> texts
  memory,             \* self.memory: the non-zero cells of the 65536
  stack_pointer, base_pointer, result_register, pc, call_level,
  finished, waiting_response,
  code,               \* self.code, the assembled words
  labels,             \* self.labels
  string_blocks,      \* self.string_blocks: block id -> list of texts
  current_string_block, \* self.current_string_block (<<>> when None)
  transcript,         \* the lines SAY_OP printed, in order
  fault,              \* the exception that left execute(), "" when none
  io_wait,            \* the imported function blocked in input(), or none
  call_frames,        \* history: one record per CALL still outstanding
  steps, resumes      \* history: instructions executed, resumes made

\* The other tools of the repository; each is idle while another one runs.
VARIABLES
  codec,              \* ArkCompressor: the data, its compressed form and
                      \* what decompress makes of that
  ark,                \* uw_cnv_compiler.py --update-cnv: the files on disk
                      \* and the position inside update_cnv_ark
  strings,            \* uw-strings-extractor.py and uw-strings-packer.py:
                      \* a STRINGS archive on its way through both
  slot,               \* a CNV.ARK slot on its way through the extractor
                      \* and back through uw_cnv_compiler.py
  temps,              \* a TempVariableManager of the UWScript compiler and
                      \* the calls made on it
  compiler,           \* uw_cnv_compiler.py run on an assembly file
  worker              \* uw-strings-translator.py: a TranslationWorker, its
                      \* queues and its threads

vm_vars == << program, phase, asm_file, strings_file, memory, stack_pointer,
              base_pointer, result_register, pc, call_level, finished,
              waiting_response, code, labels, string_blocks,
              current_string_block, transcript, fault, io_wait, call_frames,
              steps, resumes >>
tool_vars == << codec, ark, strings, slot, temps, compiler, worker >>
vars == << vm_vars, tool_vars >>

\* a tool that is not run in the behaviour at hand
Idle == [stage |-> "idle"]

MemorySize == 65536

\* the list index Python uses for memory[address]; negative indices count
\* from the end of the list
ListIndex(address) == IF address < 0 THEN address + MemorySize ELSE address
InList(address) == address >= -MemorySize /\ address < MemorySize

Cell(mem, i) == IF i \in DOMAIN mem THEN mem[i] ELSE 0
WriteCell(mem, i, v) ==
  IF v = 0 THEN [j \in (DOMAIN mem) \ {i} |-> mem[j]]
  ELSE [j \in (DOMAIN mem) \cup {i} |-> IF j = i THEN v ELSE mem[j]]

\* The machine as one record, so that a handler is a function from machine
\* to machine; once an exception is raised (fault # "") the rest of the
\* handler has no effect.
Machine ==
  [ memory |-> memory, stack_pointer |-> stack_pointer,
    base_pointer |-> base_pointer, result_register |-> result_register,
    pc |-> pc, call_level |-> call_level, finished |-> finished,
    waiting_response |-> waiting_response, transcript |-> transcript,
    fault |-> "" ]

Raise(m, exc) == IF m.fault # "" THEN m ELSE [m EXCEPT !.fault = exc]

get_mem_addr(address) ==
  IF address >= MemorySize THEN address % MemorySize ELSE address
get_mem(m, address) ==
  IF InList(get_mem_addr(address))
  THEN Cell(m.memory, ListIndex(get_mem_addr(address))) ELSE 0
\* the machine after get_mem(address): unchanged, or IndexError
read_mem(m, address) ==
  IF InList(get_mem_addr(address)) THEN m ELSE Raise(m, "IndexError")

set_mem_addr(address) ==
  IF address >= MemorySize THEN address - MemorySize ELSE address
set_mem(m, address, value) ==
  IF m.fault # "" THEN m
  ELSE IF InList(set_mem_addr(address))
       THEN [m EXCEPT !.memory =
               WriteCell(@, ListIndex(set_mem_addr(address)), value)]
       ELSE Raise(m, "IndexError")

push(m, value) ==
  IF m.fault # "" THEN m
  ELSE LET m1 == set_mem(m, m.stack_pointer, value)
       IN IF m1.fault # "" THEN m1
          ELSE [m1 EXCEPT !.stack_pointer = @ + 1]

\* pop() splits into the value it returns and the machine it leaves
top(m) == get_mem(m, m.stack_pointer - 1)
pop(m) ==
  IF m.fault # "" THEN m
  ELSE read_mem([m EXCEPT !.stack_pointer = @ - 1], m.stack_pointer - 1)

goto(m, target) == IF m.fault # "" THEN m ELSE [m EXCEPT !.pc = target]
advance(m, n) == goto(m, m.pc + n)

\* self.code[i] with Python's list indexing
InCode(i) == i >= -Len(code) /\ i < Len(code)
CodeAt(i) == IF i < 0 THEN code[i + Len(code) + 1] ELSE code[i + 1]
operand(m) == IF InCode(m.pc + 1) THEN CodeAt(m.pc + 1) ELSE 0
\* the machine after reading self.code[self.pc + 1]
fetch_operand(m) == IF InCode(m.pc + 1) THEN m ELSE Raise(m, "IndexError")

\* Python's // and % (floor division, remainder with the divisor's sign)
PyFloorDiv(a, b) == IF b > 0 THEN a \div b ELSE (0 - a) \div (0 - b)
PyMod(a, b) == IF b > 0 THEN a % b ELSE 0 - ((0 - a) % (0 - b))

\* Python's & and | on unbounded integers
RECURSIVE AndNat(_, _)
AndNat(a, b) ==
  IF a = 0 \/ b = 0 THEN 0
  ELSE (IF a % 2 = 1 /\ b % 2 = 1 THEN 1 ELSE 0)
       + 2 * AndNat(a \div 2, b \div 2)
PyAnd(a, b) ==
  CASE a >= 0 /\ b >= 0 -> AndNat(a, b)
    [] a < 0 /\ b >= 0 -> b - AndNat(b, 0 - a - 1)
    [] a >= 0 /\ b < 0 -> a - AndNat(a, 0 - b - 1)
    [] OTHER -> 0 - 1 - ((0 - a - 1) + (0 - b - 1)
                         - AndNat(0 - a - 1, 0 - b - 1))
PyOr(a, b) == 0 - 1 - PyAnd(0 - a - 1, 0 - b - 1)

\* ------------------------------------------------------ opcode handlers
\* pop b, pop a, push f(a, b), pc += 1
binary(m, result) == advance(push(pop(pop(m)), result), 1)
second(m) == top(pop(m))

op_nop(m) == advance(m, 1)
op_add(m) == binary(m, second(m) + top(m))
op_mul(m) == binary(m, second(m) * top(m))
op_sub(m) == binary(m, second(m) - top(m))
op_div(m) ==
  binary(m, IF top(m) = 0 THEN 0 ELSE PyFloorDiv(second(m), top(m)))
op_mod(m) == binary(m, IF top(m) = 0 THEN 0 ELSE PyMod(second(m), top(m)))
op_or(m) == binary(m, PyOr(second(m), top(m)))
op_and(m) == binary(m, PyAnd(second(m), top(m)))
op_not(m) == advance(push(pop(m), IF top(m) = 0 THEN 1 ELSE 0), 1)
op_tstgt(m) == binary(m, IF second(m) > top(m) THEN 1 ELSE 0)
op_tstge(m) == binary(m, IF second(m) >= top(m) THEN 1 ELSE 0)
op_tstlt(m) == binary(m, IF second(m) < top(m) THEN 1 ELSE 0)
op_tstle(m) == binary(m, IF second(m) <= top(m) THEN 1 ELSE 0)
op_tsteq(m) == binary(m, IF second(m) = top(m) THEN 1 ELSE 0)
op_tstne(m) == binary(m, IF second(m) # top(m) THEN 1 ELSE 0)

op_jmp(m) == goto(fetch_operand(m), operand(m))

op_beq(m) ==
  LET m1 == pop(fetch_operand(m))
  IN IF top(m) = 0 THEN goto(m1, m.pc + operand(m)) ELSE advance(m1, 2)

op_bne(m) ==
  LET m1 == pop(fetch_operand(m))
  IN IF top(m) # 0 THEN goto(m1, m.pc + operand(m)) ELSE advance(m1, 2)

op_bra(m) == goto(fetch_operand(m), m.pc + operand(m))

op_call(m) ==
  LET m1 == goto(push(fetch_operand(m), m.pc + 2), operand(m))
  IN IF m1.fault # "" THEN m1 ELSE [m1 EXCEPT !.call_level = @ + 1]

finish_conversation(m) ==
  IF m.fault # "" THEN m ELSE [m EXCEPT !.finished = TRUE]

\* op_ret as it would be if a RET with no CALL outstanding ended the
\* conversation (call_level counted from 0 rather than from 1)
op_ret_from_zero(m) ==
  LET m1 == [m EXCEPT !.call_level = @ - 1]
  IN IF m1.call_level < 1 THEN finish_conversation(m1)
     ELSE goto(pop(m1), top(m1))
op_ret(m) ==
  LET m1 == [m EXCEPT !.call_level = @ - 1]
  IN IF m1.call_level < 0 THEN finish_conversation(m1)
     ELSE goto(pop(m1), top(m1))

op_pushi(m) == advance(push(fetch_operand(m), operand(m)), 2)

op_pushi_eff(m) ==
  LET offset == operand(m)
      effective_addr == IF offset >= 0 THEN m.base_pointer + offset
                        ELSE m.base_pointer + (offset - 1)
  IN advance(push(fetch_operand(m), effective_addr), 2)

op_pop(m) == advance(pop(m), 1)
op_swap(m) == advance(push(push(pop(pop(m)), top(m)), second(m)), 1)
op_pushbp(m) == advance(push(m, m.base_pointer), 1)
op_popbp(m) ==
  LET m1 == pop(m)
  IN IF m1.fault # "" THEN m1
     ELSE advance([m1 EXCEPT !.base_pointer = top(m)], 1)
op_sptobp(m) == advance([m EXCEPT !.base_pointer = m.stack_pointer], 1)
op_bptosp(m) == advance([m EXCEPT !.stack_pointer = m.base_pointer], 1)

RECURSIVE push_zeros(_, _)
push_zeros(m, n) == IF n <= 0 THEN m ELSE push_zeros(push(m, 0), n - 1)
op_addsp(m) == advance(push_zeros(pop(m), top(m) + 1), 1)

op_fetchm(m) ==
  LET m1 == read_mem(pop(m), top(m))
  IN advance(push(m1, get_mem(m, top(m))), 1)
op_sto(m) == advance(set_mem(pop(pop(m)), second(m), top(m)), 1)
op_offset(m) == binary(m, second(m) + top(m) - 1)
op_start(m) == advance(m, 1)
op_save_reg(m) ==
  LET m1 == pop(m)
  IN IF m1.fault # "" THEN m1
     ELSE advance([m1 EXCEPT !.result_register = top(m)], 1)
op_push_reg(m) == advance(push(m, m.result_register), 1)
op_exit_op(m) == finish_conversation(m)
op_opneg(m) == advance(push(pop(m), 0 - top(m)), 1)

\* --------------------------------------------------------------- strings
NoStringBlock == "[No string block loaded]"

\* get_string_raw: the string of an id, without substitutions
get_string_raw(block, string_id) ==
  IF block = << >> THEN NoStringBlock
  ELSE IF 0 <= string_id /\ string_id < Len(block)
       THEN block[string_id + 1]
       ELSE "[Invalid string ID: " \o ToString(string_id) \o "]"

\* process_text_substitutions: the pattern @([GSP])([SI])(-?\d+)
DecimalDigits ==
  ("0" :> 0) @@ ("1" :> 1) @@ ("2" :> 2) @@ ("3" :> 3) @@ ("4" :> 4)
  @@ ("5" :> 5) @@ ("6" :> 6) @@ ("7" :> 7) @@ ("8" :> 8) @@ ("9" :> 9)
CharAt(text, k) == IF k >= 1 /\ k <= Len(text) THEN SubSeq(text, k, k) ELSE ""
\* the index of the last of the digits that start at index k, k - 1 if none
RECURSIVE digits_end(_, _)
digits_end(text, k) ==
  IF CharAt(text, k) \in DOMAIN DecimalDigits THEN digits_end(text, k + 1)
  ELSE k - 1
\* int() of the digits at lo..hi
RECURSIVE decimal_value(_, _, _)
decimal_value(text, lo, hi) ==
  IF lo > hi THEN 0
  ELSE decimal_value(text, lo, hi - 1) * 10 + DecimalDigits[CharAt(text, hi)]
\* the index where a match that starts at k ends, 0 without a match
match_end(text, k) ==
  LET number_at == IF CharAt(text, k + 3) = "-" THEN k + 4 ELSE k + 3
  IN IF /\ CharAt(text, k) = "@"
        /\ CharAt(text, k + 1) \in {"G", "S", "P"}
        /\ CharAt(text, k + 2) \in {"S", "I"}
        /\ digits_end(text, number_at) >= number_at
     THEN digits_end(text, number_at)
     ELSE 0
\* substitute_match: the replacement for the match at k..e
substitute_match(m, text, k, e) ==
  LET source == CharAt(text, k + 1)
      type_char == CharAt(text, k + 2)
      num == IF CharAt(text, k + 3) = "-"
             THEN 0 - decimal_value(text, k + 4, e)
             ELSE decimal_value(text, k + 3, e)
      addr == IF source = "G" THEN num ELSE m.base_pointer + num
      raises == \/ read_mem(m, addr).fault # ""
                \/ source = "P" /\ read_mem(m, get_mem(m, addr)).fault # ""
      value == IF source = "P" THEN get_mem(m, get_mem(m, addr))
               ELSE get_mem(m, addr)
  IN IF raises THEN "[ERROR:" \o SubSeq(text, k, e) \o "]"
     ELSE IF type_char = "I" THEN ToString(value)
     ELSE get_string_raw(current_string_block, value)
RECURSIVE substitute_from(_, _, _)
substitute_from(m, text, k) ==
  IF k > Len(text) THEN ""
  ELSE IF match_end(text, k) = 0
       THEN CharAt(text, k) \o substitute_from(m, text, k + 1)
       ELSE substitute_match(m, text, k, match_end(text, k))
            \o substitute_from(m, text, match_end(text, k) + 1)
\* the text left as it is
no_text_substitutions(m, text) == text
process_text_substitutions(m, text) == substitute_from(m, text, 1)

\* get_string: the text SAY_OP prints for a string id
get_string(m, string_id) ==
  IF current_string_block = << >> THEN NoStringBlock
  ELSE IF 0 <= string_id /\ string_id < Len(current_string_block)
       THEN process_text_substitutions(m,
                                       current_string_block[string_id + 1])
       ELSE "[Invalid string ID: " \o ToString(string_id) \o "]"

op_say_op(m) ==
  LET m1 == pop(m)
      text == get_string(m1, top(m))
  IN IF m1.fault # "" THEN m1
     ELSE advance([m1 EXCEPT !.transcript =
                     IF text # NoStringBlock THEN Append(@, text) ELSE @], 1)

\* --------------------------------------------------- imported functions
\* the ids registered in UltimaUnderworldVM.__init__
ImportedFunctionIds ==
  {0, 1, 2, 3, 4, 5, 7, 11} \cup (15 .. 34) \cup (36 .. 45)
  \cup {47, 48, 49, 50}
\* the handlers that call input() after setting waiting_response
BlockingIds == {0, 1, 3}
\* the registered handlers this model gives a body to
ModelledIds == BlockingIds \cup {5, 16, 37}

NoWait == [func |-> "", valid_indices |-> << >>, sp |-> 0, count |-> 0]

\* func_random: pops one cell and uses it as the pointer to max_val
func_random(m, r) ==
  LET m1 == read_mem(pop(m), top(m))
      max_val == get_mem(m, top(m))
  IN IF m1.fault # "" THEN m1
     ELSE IF max_val < 1 THEN Raise(m1, "ValueError")
     ELSE [m1 EXCEPT !.result_register = r]
\* the values random.randint(1, max_val) can return
RandomOutcomes(m) ==
  IF get_mem(m, top(m)) >= 1 THEN 1 .. get_mem(m, top(m)) ELSE {0}

\* func_set_quest: pops two pointers, reads both, prints
func_set_quest(m) ==
  read_mem(read_mem(pop(pop(m)), top(m)), second(m))

\* func_gronk_door: pops three pointers, reads them, result 1
func_gronk_door(m) ==
  LET m3 == pop(pop(pop(m)))
      m4 == read_mem(read_mem(read_mem(m3, top(m)), second(m)),
                     top(pop(pop(m))))
  IN IF m4.fault # "" THEN m4 ELSE [m4 EXCEPT !.result_register = 1]

\* the option numbers (1-based) babl_menu reads at string_array_ptr up to
\* the first 0 cell
RECURSIVE menu_options(_, _, _)
menu_options(m, string_array_ptr, i) ==
  IF get_mem(m, string_array_ptr + i) = 0 \/ i >= MemorySize THEN << >>
  ELSE << i + 1 >> \o menu_options(m, string_array_ptr, i + 1)

\* the option numbers babl_fmenu keeps: those whose flag cell is 1
RECURSIVE fmenu_options(_, _, _, _)
fmenu_options(m, string_array_ptr, flag_array_ptr, i) ==
  IF get_mem(m, string_array_ptr + i) = 0 \/ i >= MemorySize THEN << >>
  ELSE (IF get_mem(m, flag_array_ptr + i) = 1 THEN << i + 1 >> ELSE << >>)
       \o fmenu_options(m, string_array_ptr, flag_array_ptr, i + 1)

\* the part of a blocking handler that runs before input()
await_input(m) ==
  IF m.fault # "" THEN m ELSE [m EXCEPT !.waiting_response = TRUE]
func_babl_menu(m) == await_input(pop(pop(m)))
func_babl_fmenu(m) == await_input(pop(pop(pop(m))))
func_babl_ask(m) == await_input(m)

\* what the player may type at the prompt, and int() of it
Replies == {"1", "2", "3", "x"}
is_int(choice) == choice # "x"
int(choice) ==
  CASE choice = "1" -> 1 [] choice = "2" -> 2 [] choice = "3" -> 3
    [] OTHER -> 0

\* the part of a blocking handler that runs after input() returned
babl_menu_reply(m, options, choice) ==
  [m EXCEPT !.result_register =
              IF is_int(choice) /\ 1 <= int(choice)
                 /\ int(choice) <= Len(options)
              THEN int(choice) ELSE 1,
            !.waiting_response = FALSE]
babl_fmenu_reply(m, valid_indices, choice) ==
  [m EXCEPT !.result_register =
              IF is_int(choice) /\ 1 <= int(choice)
                 /\ int(choice) <= Len(valid_indices)
              THEN valid_indices[int(choice)]
              ELSE IF valid_indices # << >> THEN valid_indices[1] ELSE 0,
            !.waiting_response = FALSE]
babl_ask_reply(m) ==
  [m EXCEPT !.result_register = 100, !.waiting_response = FALSE]

\* op_calli after the handler returned: push result_register, pc += 2
calli_return(m) == advance(push(m, m.result_register), 2)

\* op_calli as it would be if an unregistered id raised instead of warning
calli_unknown_raising(m) == Raise(fetch_operand(m), "UnknownImport")
\* op_calli for an id that is not registered: warn, then the same tail
calli_unknown(m) == calli_return(fetch_operand(m))

\* ---------------------------------------------------------- UWScript AST
Num(n) == [kind |-> "Literal", type |-> "NUMBER", value |-> n, text |-> ""]
Str(s) == [kind |-> "Literal", type |-> "STRING", value |-> 0, text |-> s]
Bool(b) == [kind |-> "Literal", type |-> "KEYWORD",
            value |-> IF b THEN 1 ELSE 0, text |-> ""]
Id(n) == [kind |-> "Identifier", name |-> n]
Bin(o, l, r) == [kind |-> "BinaryOperation", op |-> o, left |-> l, right |-> r]
Un(o, e) == [kind |-> "UnaryOperation", op |-> o, operand |-> e]
Call(n, args) == [kind |-> "FunctionCall", name |-> n, arguments |-> args]
ArrayLit(es) == [kind |-> "ArrayLiteral", elements |-> es]
ArrayAcc(a, i) == [kind |-> "ArrayAccess", array |-> a, index |-> i]
Let(n, e) == [kind |-> "VariableDeclaration", name |-> n, child |-> e]
Assign(tg, o, e) ==
  [kind |-> "Assignment", target |-> tg, operator |-> o, child |-> e]
If(c, t, f) ==
  [kind |-> "IfStatement", condition |-> c, true_branch |-> t,
   false_branch |-> f]
While(c, b) == [kind |-> "WhileStatement", condition |-> c, body |-> b]
Func(n, ps, b) ==
  [kind |-> "FunctionDefinition", name |-> n, parameters |-> ps, body |-> b]
Return(cs) == [kind |-> "ReturnStatement", children |-> cs]
Say(e) == [kind |-> "SayStatement", child |-> e]
Ask(v) == [kind |-> "AskStatement", variable |-> v]
Menu(v, is) == [kind |-> "MenuStatement", variable |-> v, items |-> is]
FilterMenu(v, is, fs) ==
  [kind |-> "FilterMenuStatement", variable |-> v, items |-> is, flags |-> fs]
Exit == [kind |-> "ExitStatement"]
Prog(cs) == [kind |-> "Program", children |-> cs]

\* ---------------------------------------------- TempVariableManager
base_temp_var == 1000

SetMin(S) == CHOOSE x \in S : \A y \in S : x <= y
RECURSIVE first_unallocated(_, _)
first_unallocated(allocated, t) ==
  IF t \in allocated THEN first_unallocated(allocated, t + 1) ELSE t

enter_scope(g) ==
  [g EXCEPT !.call_depth = @ + 1, !.scoped_temp_vars = Append(@, {})]

exit_scope(g) ==
  IF g.scoped_temp_vars = << >> THEN g
  ELSE LET scope == g.scoped_temp_vars[Len(g.scoped_temp_vars)]
       IN [g EXCEPT
             !.scoped_temp_vars = SubSeq(@, 1, Len(@) - 1),
             !.allocated_temps = @ \ scope,
             !.freed_temps = @ \cup scope,
             !.call_depth = @ - 1]

\* the highest cell of freed_temps in place of the lowest
next_temp_var_highest(g) ==
  IF g.freed_temps # {}
  THEN CHOOSE x \in g.freed_temps : \A y \in g.freed_temps : x >= y
  ELSE first_unallocated(g.allocated_temps, base_temp_var)
\* the cell allocate_temp_var returns
next_temp_var(g) ==
  IF g.freed_temps # {} THEN SetMin(g.freed_temps)
  ELSE first_unallocated(g.allocated_temps, base_temp_var)

allocate_temp_var(g) ==
  LET temp_var == next_temp_var(g)
  IN [g EXCEPT
        !.freed_temps = @ \ {temp_var},
        !.allocated_temps = @ \cup {temp_var},
        !.scoped_temp_vars =
           IF @ = << >> THEN @
           ELSE [@ EXCEPT ![Len(@)] = @ \cup {temp_var}]]

\* ------------------------------------------------------- FunctionScope
FunctionScope(parameters) ==
  [ parameters |-> parameters,
    local_variables |->
      [p \in {parameters[i] : i \in 1 .. Len(parameters)} |->
         0 - ((CHOOSE i \in 1 .. Len(parameters) :
                 parameters[i] = p
                 /\ \A j \in 1 .. Len(parameters) :
                      parameters[j] = p => j <= i) - 1 + 2)],
    next_local_offset |-> 0 ]

allocate_local_var(scope, name, size) ==
  IF name \in DOMAIN scope.local_variables THEN scope
  ELSE [scope EXCEPT
          !.local_variables = MapPut(@, name, scope.next_local_offset),
          !.next_local_offset = @ + size]

\* ------------------------------------------------------- CodeGenerator
builtin_functions ==
  [n \in {"random", "get_quest", "set_quest", "compare", "string_length",
          "contains", "gronk_door", "clear_screen", "set_pixel",
          "draw_line", "draw_rect", "fill_rect", "draw_circle",
          "draw_sprite", "print", "flip_display", "play_tone",
          "is_key_pressed", "is_key_released", "math_sin", "math_cos",
          "math_sqrt"} |->
     CASE n = "random" -> 5 [] n = "get_quest" -> 15
       [] n = "set_quest" -> 16 [] n = "compare" -> 4
       [] n = "string_length" -> 11 [] n = "contains" -> 7
       [] n = "gronk_door" -> 37 [] n = "clear_screen" -> 100
       [] n = "set_pixel" -> 101 [] n = "draw_line" -> 102
       [] n = "draw_rect" -> 103 [] n = "fill_rect" -> 104
       [] n = "draw_circle" -> 105 [] n = "draw_sprite" -> 106
       [] n = "print" -> 107 [] n = "flip_display" -> 109
       [] n = "play_tone" -> 200 [] n = "is_key_pressed" -> 300
       [] n = "is_key_released" -> 301 [] n = "math_sin" -> 501
       [] n = "math_cos" -> 502 [] OTHER -> 503]

\* the generator after __init__ and reset
NewGenerator ==
  [ main_program_code |-> << >>, function_code |-> << >>,
    current_target |-> "main", current_function |-> "",
    label_counter |-> 0, global_variables |-> EmptyMap,
    next_global_var |-> 0, functions |-> EmptyMap,
    function_scopes |-> EmptyMap, variable_types |-> EmptyMap,
    string_literals |-> << >>, scoped_temp_vars |-> << >>,
    allocated_temps |-> {}, freed_temps |-> {}, call_depth |-> 0,
    error |-> "" ]

Fail(g, exc) == IF g.error # "" THEN g ELSE [g EXCEPT !.error = exc]

_emit(g, line) ==
  IF g.error # "" THEN g
  ELSE IF g.current_target = "main"
       THEN [g EXCEPT !.main_program_code = Append(@, line)]
       ELSE [g EXCEPT !.function_code = Append(@, line)]

\* several _emit calls in a row
emit_all(g, lines) ==
  IF g.error # "" THEN g
  ELSE IF g.current_target = "main"
       THEN [g EXCEPT !.main_program_code = @ \o lines]
       ELSE [g EXCEPT !.function_code = @ \o lines]

_emit_label(g, name) == _emit(g, Lbl(name))

\* _create_label returns this name and advances the counter
new_label(g) == "label_" \o ToString(g.label_counter)
_create_label(g) == [g EXCEPT !.label_counter = @ + 1]

InFunctionScope(g) ==
  g.current_function # "" /\ g.current_function \in DOMAIN g.function_scopes

HasVariable(g, name) ==
  \/ InFunctionScope(g)
     /\ name \in DOMAIN g.function_scopes[g.current_function].local_variables
  \/ name \in DOMAIN g.global_variables

\* defined when HasVariable; None otherwise
_get_variable_offset(g, name) ==
  IF InFunctionScope(g)
     /\ name \in DOMAIN g.function_scopes[g.current_function].local_variables
  THEN g.function_scopes[g.current_function].local_variables[name]
  ELSE g.global_variables[name]

_allocate_variable(g, name, size) ==
  IF InFunctionScope(g)
  THEN [g EXCEPT !.function_scopes[g.current_function] =
                    allocate_local_var(@, name, size)]
  ELSE IF name \in DOMAIN g.global_variables THEN g
  ELSE [g EXCEPT !.global_variables = MapPut(@, name, g.next_global_var),
                 !.next_global_var = @ + size]

\* list.index: 0-based position of the first occurrence, -1 when absent
RECURSIVE index_from(_, _, _)
index_from(seq, x, i) ==
  IF i > Len(seq) THEN 0 - 1
  ELSE IF seq[i] = x THEN i - 1 ELSE index_from(seq, x, i + 1)
index(seq, x) == index_from(seq, x, 1)

store_sequence(var_id) ==
  << I1("PUSHI_EFF", var_id), I0("SWAP"), I0("STO") >>

\* _first_pass: the string literals of a node in the order they are visited
RECURSIVE strings_in(_), strings_in_list(_)
strings_in(node) ==
  CASE node.kind = "Program" -> strings_in_list(node.children)
    [] node.kind = "FunctionDefinition" -> strings_in_list(node.body)
    [] node.kind = "Literal" ->
         IF node.type = "STRING" THEN << node.text >> ELSE << >>
    [] node.kind = "SayStatement" -> strings_in(node.child)
    [] node.kind = "BinaryOperation" ->
         strings_in(node.left) \o strings_in(node.right)
    [] node.kind = "UnaryOperation" -> strings_in(node.operand)
    [] node.kind = "ArrayLiteral" -> strings_in_list(node.elements)
    [] node.kind = "ArrayAccess" ->
         strings_in(node.array) \o strings_in(node.index)
    [] node.kind = "MenuStatement" -> strings_in_list(node.items)
    [] node.kind = "FilterMenuStatement" ->
         strings_in_list(node.items) \o strings_in_list(node.flags)
    [] node.kind = "IfStatement" ->
         strings_in(node.condition) \o strings_in_list(node.true_branch)
           \o strings_in_list(node.false_branch)
    [] node.kind = "WhileStatement" ->
         strings_in(node.condition) \o strings_in_list(node.body)
    [] node.kind = "FunctionCall" -> strings_in_list(node.arguments)
    [] node.kind \in {"VariableDeclaration", "Assignment"} ->
         strings_in(node.child)
    [] node.kind = "ReturnStatement" -> strings_in_list(node.children)
    [] OTHER -> << >>
strings_in_list(nodes) ==
  IF nodes = << >> THEN << >>
  ELSE strings_in(Head(nodes)) \o strings_in_list(Tail(nodes))

\* "if value not in self.string_literals: append"
RECURSIVE register_strings(_, _)
register_strings(seen, found) ==
  IF found = << >> THEN seen
  ELSE register_strings(
         IF index(seen, Head(found)) >= 0 THEN seen
         ELSE Append(seen, Head(found)),
         Tail(found))

RECURSIVE register_functions(_, _)
register_functions(g, children) ==
  IF children = << >> THEN g
  ELSE LET child == Head(children)
       IN register_functions(
            IF child.kind = "FunctionDefinition"
            THEN [g EXCEPT
                    !.functions = MapPut(@, child.name, child.parameters),
                    !.function_scopes =
                       MapPut(@, child.name, FunctionScope(child.parameters))]
            ELSE g,
            Tail(children))

_first_pass(g, ast) ==
  [register_functions(g, ast.children) EXCEPT
     !.string_literals = register_strings(<< >>, strings_in(ast))]

BinaryMnemonic(o) ==
  CASE o = "+" -> "OPADD" [] o = "-" -> "OPSUB" [] o = "*" -> "OPMUL"
    [] o = "/" -> "OPDIV" [] o = "%" -> "OPMOD" [] o = "==" -> "TSTEQ"
    [] o = "!=" -> "TSTNE" [] o = "<" -> "TSTLT" [] o = ">" -> "TSTGT"
    [] o = "<=" -> "TSTLE" [] o = ">=" -> "TSTGE" [] o = "and" -> "OPAND"
    [] o = "or" -> "OPOR"

CompoundMnemonic(o) ==
  CASE o = "+=" -> "OPADD" [] o = "-=" -> "OPSUB" [] o = "*=" -> "OPMUL"
    [] o = "/=" -> "OPDIV"

IsStringLiteral(node) == node.kind = "Literal" /\ node.type = "STRING"
IsConcat(node) == node.kind = "BinaryOperation" /\ node.op = "+"

\* the string table and the index pushed for  "text" + variable
substitute(g, original_string, substituted_string) ==
  LET at == index(g.string_literals, original_string)
  IN IF at >= 0
     THEN _emit([g EXCEPT !.string_literals[at + 1] = substituted_string],
                I1("PUSHI", at))
     ELSE _emit([g EXCEPT !.string_literals = Append(@, substituted_string)],
                I1("PUSHI", Len(g.string_literals)))

subst_type(g, name) ==
  IF MapGet(g.variable_types, name, "integer") = "string" THEN "SS" ELSE "SI"

\* "if node.variable:" tail shared by ask, menu and filtermenu
save_result(g, variable) ==
  IF variable = "" \/ g.error # "" THEN g
  ELSE LET g1 == _allocate_variable(g, variable, 1)
       IN emit_all(g1, << I0("PUSH_REG") >>
                         \o store_sequence(_get_variable_offset(g1, variable)))

array_store(array_var, i) ==
  << I1("PUSHI_EFF", array_var), I1("PUSHI", i), I0("OPADD"), I0("SWAP"),
     I0("STO") >>

RECURSIVE pushi_eff_all(_)
pushi_eff_all(temp_vars) ==
  IF temp_vars = << >> THEN << >>
  ELSE << I1("PUSHI_EFF", Head(temp_vars)) >> \o pushi_eff_all(Tail(temp_vars))

RECURSIVE repeat(_, _)
repeat(line, n) == IF n <= 0 THEN << >> ELSE << line >> \o repeat(line, n - 1)

RECURSIVE array_stores(_, _, _)
array_stores(var_id, i, array_size) ==
  IF i >= array_size THEN << >>
  ELSE store_sequence(var_id + i) \o array_stores(var_id, i + 1, array_size)

Reverse(seq) == [i \in 1 .. Len(seq) |-> seq[Len(seq) + 1 - i]]

\* _generate_code: the generator after emitting the code of a node.  An
\* exception raised on the way is recorded in error and stops every later
\* emission.
RECURSIVE _generate_code(_, _), generate_all(_, _), builtin_arguments(_, _, _),
          menu_items(_, _, _, _), filtermenu_items(_, _, _, _, _, _)

generate_all(g, nodes) ==
  IF nodes = << >> \/ g.error # "" THEN g
  ELSE generate_all(_generate_code(g, Head(nodes)), Tail(nodes))

\* the argument loop of a builtin call: [g, temp_vars]
builtin_arguments(g, arguments, temp_vars) ==
  IF arguments = << >> \/ g.error # "" THEN [g |-> g, temp_vars |-> temp_vars]
  ELSE LET temp_var == next_temp_var(g)
           g1 == _generate_code(allocate_temp_var(g), Head(arguments))
       IN builtin_arguments(emit_all(g1, store_sequence(temp_var)),
                            Tail(arguments), Append(temp_vars, temp_var))

menu_items(g, items, i, array_var) ==
  IF i >= Len(items) \/ g.error # "" THEN g
  ELSE menu_items(emit_all(_generate_code(g, items[i + 1]),
                           array_store(array_var, i)),
                  items, i + 1, array_var)

filtermenu_items(g, items, flags, i, strings_var, flags_var) ==
  IF i >= Len(items) \/ i >= Len(flags) \/ g.error # "" THEN g
  ELSE LET g1 == emit_all(_generate_code(g, items[i + 1]),
                          array_store(strings_var, i))
           g2 == emit_all(_generate_code(g1, flags[i + 1]),
                          array_store(flags_var, i))
       IN filtermenu_items(g2, items, flags, i + 1, strings_var, flags_var)

_generate_function_code(g, node) ==
  LET g1 == _emit_label(g, node.name)
      g2 == IF node.parameters # << >>
            THEN emit_all(g1, << I0("PUSHBP"), I0("SPTOBP"), I1("PUSHI", 10),
                                 I0("ADDSP") >>)
            ELSE g1
      g3 == generate_all(g2, node.body)
  IN IF node.body = << >>
        \/ node.body[Len(node.body)].kind # "ReturnStatement"
     THEN emit_all(g3, (IF node.parameters # << >>
                        THEN << I0("BPTOSP"), I0("POPBP") >> ELSE << >>)
                       \o << I0("RET") >>)
     ELSE g3

RECURSIVE program_children(_, _)
program_children(g, children) ==
  IF children = << >> \/ g.error # "" THEN g
  ELSE LET child == Head(children)
       IN program_children(
            IF child.kind = "FunctionDefinition"
            THEN [_generate_function_code(
                    [g EXCEPT !.current_target = "function",
                              !.current_function = child.name], child)
                  EXCEPT !.current_target = g.current_target,
                         !.current_function = g.current_function]
            ELSE _generate_code(g, child),
            Tail(children))

_generate_code(g, node) ==
  IF g.error # "" THEN g
  ELSE CASE node.kind = "Program" ->
         _emit(program_children(_emit(g, I0("START")), node.children),
               I0("EXIT_OP"))
    [] node.kind = "VariableDeclaration" ->
         LET g1 == _generate_code(g, node.child)
         IN IF g1.error # "" THEN g1
            ELSE IF node.child.kind = "ArrayLiteral"
            THEN LET array_size == Len(node.child.elements)
                     g2 == _allocate_variable(g1, node.name, array_size)
                     var_id == _get_variable_offset(g2, node.name)
                 IN emit_all([g2 EXCEPT !.variable_types =
                                           MapPut(@, node.name, "array")],
                             array_stores(var_id, 0, array_size))
            ELSE LET g2 == [g1 EXCEPT !.variable_types =
                              MapPut(@, node.name,
                                     IF IsStringLiteral(node.child)
                                     THEN "string" ELSE "integer")]
                     g3 == _allocate_variable(g2, node.name, 1)
                 IN emit_all(g3, store_sequence(
                                   _get_variable_offset(g3, node.name)))
    [] node.kind = "Assignment" ->
         LET g1 == _generate_code(g, node.child)
         IN IF g1.error # "" THEN g1
            ELSE IF node.target.kind = "Identifier"
            THEN IF ~HasVariable(g1, node.target.name)
                 THEN Fail(g1, "NameError")
                 ELSE LET var_id == _get_variable_offset(g1, node.target.name)
                      IN IF node.operator = "="
                         THEN emit_all(g1, store_sequence(var_id))
                         ELSE emit_all(g1,
                                << I1("PUSHI_EFF", var_id), I0("FETCHM"),
                                   I0("SWAP"),
                                   I0(CompoundMnemonic(node.operator)) >>
                                \o store_sequence(var_id))
            ELSE IF node.target.kind = "ArrayAccess"
            THEN IF node.target.array.kind # "Identifier"
                 THEN Fail(g1, "SyntaxError")
                 ELSE IF ~HasVariable(g1, node.target.array.name)
                 THEN Fail(g1, "NameError")
                 ELSE IF MapGet(g1.variable_types, node.target.array.name, "")
                         # "array"
                 THEN Fail(g1, "TypeError")
                 ELSE emit_all(_generate_code(g1, node.target.index),
                        << I1("PUSHI", _get_variable_offset(
                                          g1, node.target.array.name)),
                           I0("OPADD"), I0("SWAP"), I0("STO") >>)
            ELSE Fail(g1, "SyntaxError")
    [] node.kind = "IfStatement" ->
         LET else_label == new_label(g)
             end_label == new_label(_create_label(g))
             g1 == _generate_code(_create_label(_create_label(g)),
                                  node.condition)
             g2 == generate_all(_emit(g1, IL("BEQ", else_label)),
                                node.true_branch)
             g3 == _emit_label(_emit(g2, IL("JMP", end_label)), else_label)
         IN _emit_label(generate_all(g3, node.false_branch), end_label)
    [] node.kind = "WhileStatement" ->
         LET start_label == new_label(g)
             end_label == new_label(_create_label(g))
             g1 == _generate_code(
                     _emit_label(_create_label(_create_label(g)), start_label),
                     node.condition)
             g2 == generate_all(_emit(g1, IL("BEQ", end_label)), node.body)
         IN _emit_label(_emit(g2, IL("JMP", start_label)), end_label)
    [] node.kind = "FunctionCall" ->
         IF node.name \in DOMAIN builtin_functions
         THEN LET r == builtin_arguments(enter_scope(g), node.arguments, << >>)
              IN exit_scope(emit_all(r.g,
                   pushi_eff_all(r.temp_vars)
                   \o << I1("PUSHI", Len(node.arguments)),
                         I1("CALLI", builtin_functions[node.name]) >>))
         ELSE IF node.name \notin DOMAIN g.functions
         THEN Fail(g, "NameError")
         ELSE emit_all(generate_all(g, node.arguments),
                << IL("CALL", node.name) >>
                \o repeat(I0("POP"), Len(g.functions[node.name])))
    [] node.kind = "ReturnStatement" ->
         emit_all(IF node.children # << >>
                  THEN _generate_code(g, node.children[1])
                  ELSE _emit(g, I1("PUSHI", 0)),
                  << I0("BPTOSP"), I0("POPBP"), I0("RET") >>)
    [] node.kind = "SayStatement" ->
         _emit(_generate_code(g, node.child), I0("SAY_OP"))
    [] node.kind = "AskStatement" ->
         save_result(emit_all(g, << I1("PUSHI", 0), I1("CALLI", 3) >>),
                     node.variable)
    [] node.kind = "MenuStatement" ->
         LET array_var == next_temp_var(enter_scope(g))
             g1 == menu_items(allocate_temp_var(enter_scope(g)), node.items,
                              0, array_var)
             g2 == emit_all(g1, << I1("PUSHI", 0) >>
                      \o array_store(array_var, Len(node.items))
                      \o << I1("PUSHI_EFF", array_var), I1("PUSHI", 1),
                            I1("CALLI", 0) >>)
         IN exit_scope(save_result(g2, node.variable))
    [] node.kind = "FilterMenuStatement" ->
         LET ga == allocate_temp_var(enter_scope(g))
             strings_var == next_temp_var(enter_scope(g))
             flags_var == next_temp_var(ga)
             g1 == filtermenu_items(allocate_temp_var(ga), node.items,
                                    node.flags, 0, strings_var, flags_var)
             g2 == emit_all(g1, << I1("PUSHI", 0) >>
                      \o array_store(strings_var, Len(node.items))
                      \o << I1("PUSHI_EFF", flags_var),
                            I1("PUSHI_EFF", strings_var), I1("PUSHI", 2),
                            I1("CALLI", 1) >>)
         IN exit_scope(save_result(g2, node.variable))
    [] node.kind = "ExitStatement" -> _emit(g, I0("EXIT_OP"))
    [] node.kind = "ArrayLiteral" -> generate_all(g, Reverse(node.elements))
    [] node.kind = "ArrayAccess" ->
         IF node.array.kind # "Identifier" THEN Fail(g, "SyntaxError")
         ELSE IF ~HasVariable(g, node.array.name) THEN Fail(g, "NameError")
         ELSE IF MapGet(g.variable_types, node.array.name, "array") # "array"
         THEN Fail(g, "TypeError")
         ELSE emit_all(_generate_code(g, node.index),
                << I1("PUSHI", _get_variable_offset(g, node.array.name)),
                   I0("OPADD"), I0("FETCHM") >>)
    [] node.kind = "BinaryOperation" ->
         IF node.op = "+" /\ ~IsConcat(node.left) /\ ~IsConcat(node.right)
            /\ IsStringLiteral(node.left) /\ node.right.kind = "Identifier"
            /\ HasVariable(g, node.right.name)
         THEN substitute(g, node.left.text,
                node.left.text \o "@" \o subst_type(g, node.right.name)
                  \o ToString(_get_variable_offset(g, node.right.name)))
         ELSE IF node.op = "+" /\ ~IsConcat(node.left) /\ ~IsConcat(node.right)
            /\ ~(IsStringLiteral(node.left) /\ node.right.kind = "Identifier")
            /\ IsStringLiteral(node.right) /\ node.left.kind = "Identifier"
            /\ HasVariable(g, node.left.name)
         THEN substitute(g, node.right.text,
                "@" \o subst_type(g, node.left.name)
                  \o ToString(_get_variable_offset(g, node.left.name))
                  \o node.right.text)
         ELSE _emit(_generate_code(_generate_code(g, node.left), node.right),
                    I0(BinaryMnemonic(node.op)))
    [] node.kind = "UnaryOperation" ->
         _emit(_generate_code(g, node.operand),
               I0(IF node.op = "-" THEN "OPNEG" ELSE "OPNOT"))
    [] node.kind = "Literal" ->
         IF node.type = "STRING"
         THEN IF index(g.string_literals, node.text) < 0
              THEN Fail(g, "ValueError")
              ELSE _emit(g, I1("PUSHI", index(g.string_literals, node.text)))
         ELSE _emit(g, I1("PUSHI", node.value))
    [] node.kind = "Identifier" ->
         IF ~HasVariable(g, node.name) THEN Fail(g, "NameError")
         ELSE IF MapGet(g.variable_types, node.name, "") = "array"
         THEN emit_all(g, << I0("PUSHBP"),
                             I1("PUSHI", _get_variable_offset(g, node.name)),
                             I0("OPADD") >>)
         ELSE emit_all(g, << I1("PUSHI_EFF",
                                _get_variable_offset(g, node.name)),
                             I0("FETCHM") >>)

\* generate: first pass, code generation, main code followed by functions
generate(ast) ==
  LET g == _generate_code(_first_pass(NewGenerator, ast), ast)
  IN [ error |-> g.error,
       lines |-> g.main_program_code \o g.function_code,
       main_lines |-> g.main_program_code,
       strings |-> g.string_literals,
       global_variables |-> g.global_variables ]

\* ------------------------------------------------------------- programs
\* UWScript sources, as the parser's syntax trees.

\* let c = <c>
\* if c == 1 say "B1" elseif c == 2 say "B2" ... else say "E" endif
\* say "Z"
\* The parser nests each elseif as the only statement of the false branch
\* of the clause before it; the else body is the innermost false branch.
BranchText(i) == "B" \o ToString(i)
RECURSIVE ChainClause(_, _)
ChainClause(i, elseifs) ==
  If(Bin("==", Id("c"), Num(i)),
     << Say(Str(BranchText(i))) >>,
     IF i > elseifs THEN << Say(Str("E")) >>
     ELSE << ChainClause(i + 1, elseifs) >>)
IfChain(elseifs, c) ==
  Prog(<< Let("c", Num(c)), ChainClause(1, elseifs), Say(Str("Z")) >>)

\* function f(x, y) return x * 2 + y endfunction
\* let r = f(<a>, <b>)
FuncParams(a, b) ==
  Prog(<< Func("f", << "x", "y" >>,
               << Return(<< Bin("+", Bin("*", Id("x"), Num(2)), Id("y")) >>) >>),
          Let("r", Call("f", << Num(a), Num(b) >>)) >>)

\* [10, 20, 30, 40, 50]
TestArray == ArrayLit(<< Num(10), Num(20), Num(30), Num(40), Num(50) >>)

ScriptNames ==
  { "ask", "menu", "filtermenu", "random", "set_quest", "gronk_door",
    "call_statement", "noparam_plain", "noparam_return", "undefined",
    "array_read", "array_write", "while_sum", "concat", "concat_string",
    "literal_reuse", "literal_earlier", "menu_first", "menu_said" }

Script(name) ==
  CASE name = "ask" -> Prog(<< Ask("v") >>)
    [] name = "menu" ->
         Prog(<< Say(Str("hello")),
                 Menu("m", << Str("yes"), Str("no") >>) >>)
    [] name = "filtermenu" ->
         Prog(<< Say(Str("hello")),
                 FilterMenu("m", << Str("yes"), Str("no"), Str("maybe") >>,
                            << Num(0), Num(1), Num(1) >>) >>)
    [] name = "random" -> Prog(<< Call("random", << Num(3) >>) >>)
    [] name = "set_quest" ->
         Prog(<< Call("set_quest", << Num(1), Num(2) >>) >>)
    [] name = "gronk_door" ->
         Prog(<< Call("gronk_door", << Num(1), Num(2), Num(0) >>) >>)
    [] name = "call_statement" ->
         Prog(<< Func("h", << "p" >>, << Say(Str("hi")) >>),
                 Call("h", << Num(1) >>) >>)
    [] name = "noparam_plain" ->
         Prog(<< Func("k", << >>, << Say(Str("hi")) >>),
                 Call("k", << >>) >>)
    [] name = "noparam_return" ->
         Prog(<< Func("g", << >>, << Return(<< Num(5) >>) >>),
                 Let("r", Call("g", << >>)) >>)
    [] name = "undefined" -> Prog(<< Say(Id("x")) >>)
    [] name = "array_read" ->
         Prog(<< Let("a", TestArray), Let("v", ArrayAcc(Id("a"), Num(2))) >>)
    [] name = "array_write" ->
         Prog(<< Let("a", TestArray),
                 Assign(ArrayAcc(Id("a"), Num(1)), "=", Num(25)),
                 Let("v", ArrayAcc(Id("a"), Num(1))) >>)
    [] name = "while_sum" ->
         Prog(<< Let("i", Num(0)), Let("s", Num(0)),
                 While(Bin("<", Id("i"), Num(5)),
                       << Assign(Id("s"), "+=", Id("i")),
                          Assign(Id("i"), "+=", Num(1)) >>) >>)
    [] name = "concat" ->
         Prog(<< Let("hp", Num(75)), Say(Bin("+", Str("HP: "), Id("hp"))) >>)
    [] name = "concat_string" ->
         Prog(<< Let("name", Str("Bob")),
                 Say(Bin("+", Id("name"), Str(" is here"))) >>)
    [] name = "menu_first" ->
         Prog(<< Menu("m", << Str("yes"), Str("no") >>) >>)
    [] name = "menu_said" ->
         Prog(<< Say(Str("no")), Menu("m", << Str("yes"), Str("no") >>) >>)
    [] name = "literal_reuse" ->
         Prog(<< Let("hp", Num(75)), Say(Bin("+", Str("HP: "), Id("hp"))),
                 Say(Str("HP: ")) >>)
    [] name = "literal_earlier" ->
         Prog(<< Let("hp", Num(75)), Say(Str("HP: ")),
                 Say(Bin("+", Str("HP: "), Id("hp"))) >>)

\* Hand-written assembly files.
AsmNames ==
  { "branches", "stray_ret", "errors", "calls", "arith", "wild", "overflow" }

AsmLines(name) ==
  CASE name = "branches" ->
         << I0("START"), I1("PUSHI", 0), IL("BEQ", "l1"), I0("NOP"),
            I0("NOP"), Lbl("l1"), I1("PUSHI", 1), IL("BNE", "l2"),
            I0("NOP"), I0("NOP"), Lbl("l2"), IL("BRA", "l3"), I0("NOP"),
            I0("NOP"), Lbl("l3"), I1("PUSHI", 5), IL("BEQ", "l1"),
            I1("PUSHI", 0), IL("BNE", "l1"), I0("EXIT_OP"), I0("NOP") >>
    [] name = "stray_ret" ->
         << I0("START"), I1("PUSHI", 4), I0("RET"), I1("PUSHI", 7),
            I0("RET"), I0("NOP") >>
    [] name = "errors" ->
         << I0("START"), I1("PUSHI", 0), I1("CALLI", 99), I0("POP"),
            I0("STRCMP"), I0("RESPOND_OP"), I0("FROB"), I0("NOP") >>
    [] name = "calls" ->
         << I0("START"), IL("CALL", "outer"), I0("EXIT_OP"), Lbl("outer"),
            IL("CALL", "inner"), I0("RET"), Lbl("inner"), I0("NOP"),
            I0("RET") >>
    [] name = "arith" ->
         << I0("START"), I1("PUSHI", 7), I1("PUSHI", 2), I0("OPADD"),
            I1("PUSHI", 3), I0("OPMUL"), I1("PUSHI", 40), I0("OPSUB"),
            I1("PUSHI", 5), I0("OPDIV"), I1("PUSHI", 4), I0("OPMOD"),
            I1("PUSHI", 6), I0("OPOR"), I1("PUSHI", 0 - 3), I0("OPAND"),
            I0("OPNEG"), I0("OPNOT"), I1("PUSHI", 1), I0("TSTGT"),
            I1("PUSHI", 0), I0("TSTGE"), I1("PUSHI", 1), I0("TSTLT"),
            I1("PUSHI", 1), I0("TSTLE"), I1("PUSHI", 1), I0("TSTEQ"),
            I1("PUSHI", 0), I0("TSTNE"), I0("SAVE_REG"), I0("PUSH_REG"),
            I1("PUSHI", 2), I0("OFFSET"), I1("PUSHI", 0), I0("OPDIV"),
            I1("PUSHI", 0), I0("OPMOD"), I0("SAY_OP") >>
    [] name = "wild" -> << I0("START"), I1("BRA", 0 - 9) >>
    [] name = "overflow" ->
         << I0("START"), I1("PUSHI", 65535), I1("PUSHI", 1), I0("OPADD"),
            I1("PUSHI", 300), I1("PUSHI", 300), I0("OPMUL"),
            I1("PUSHI", 0), I1("PUSHI", 1), I0("OPSUB"),
            I1("PUSHI", 1), I0("OPNEG"),
            I1("PUSHI", 65536 + 70), I0("FETCHM"),
            I1("PUSHI", 9), I1("PUSHI", 65536 + 71), I0("STO"),
            I1("PUSHI", 9), I1("PUSHI", 131072 + 72), I0("STO"),
            I0("NOP") >>

ProgramSet ==
  UNION { { [kind |-> "ifchain", p |-> n, q |-> c] : c \in 1 .. n + 2 } :
          n \in 0 .. MaxElseifs }
  \cup { [kind |-> "function", p |-> a, q |-> b] :
         a \in 1 .. MaxArg, b \in 1 .. MaxArg }
  \cup { [kind |-> name, p |-> 0, q |-> 0] : name \in ScriptNames \cup AsmNames }

IsScript(prog) == prog.kind \notin AsmNames
Source(prog) ==
  CASE prog.kind = "ifchain" -> IfChain(prog.p, prog.q)
    [] prog.kind = "function" -> FuncParams(prog.p, prog.q)
    [] OTHER -> Script(prog.kind)

\* the files of a run; string_block 0 stands for "no String Block header"
NoFile == [string_block |-> 0, lines |-> << >>, main_lines |-> << >>]

\* ------------------------------------------------------------ the run
game_globals ==
  (1 :> 30) @@ (4 :> 30) @@ (5 :> 30) @@ (6 :> 3) @@ (12 :> 32)
  @@ (13 :> 32) @@ (14 :> 268) @@ (16 :> 30) @@ (17 :> 30) @@ (20 :> 8)
  @@ (21 :> 3) @@ (26 :> 1) @@ (28 :> 1) @@ (29 :> 1) @@ (30 :> 1)
imported_globals_count == 32
memory_slots == imported_globals_count + 32
initial_stack_pointer == memory_slots + 512

Init ==
  /\ program \in ProgramSet
  /\ phase = IF IsScript(program) THEN "source" ELSE "files"
  /\ asm_file = IF IsScript(program) THEN NoFile
                ELSE [NoFile EXCEPT !.lines = AsmLines(program.kind)]
  /\ strings_file = EmptyMap
  /\ memory = EmptyMap
  /\ stack_pointer = 0 /\ base_pointer = 0 /\ result_register = 0
  /\ pc = 0 /\ call_level = 1
  /\ finished = FALSE /\ waiting_response = FALSE
  /\ code = << >> /\ labels = EmptyMap
  /\ string_blocks = EmptyMap /\ current_string_block = << >>
  /\ transcript = << >> /\ fault = "" /\ io_wait = NoWait
  /\ call_frames = << >> /\ steps = 0 /\ resumes = 0
  /\ codec = Idle /\ ark = Idle /\ strings = Idle /\ slot = Idle
  /\ temps = Idle /\ compiler = Idle /\ worker = Idle

machine_vars ==
  << memory, stack_pointer, base_pointer, result_register, pc, call_level,
     finished, waiting_response, transcript, fault, io_wait, call_frames,
     steps, resumes >>

\* compile_uwscript with block_id 1: the assembly text and the strings file
Compile ==
  /\ phase = "source"
  /\ LET r == generate(Source(program))
     IN IF r.error # ""
        THEN /\ phase' = "compile_error"
             /\ UNCHANGED << asm_file, strings_file >>
        ELSE /\ phase' = "files"
             /\ asm_file' = [string_block |-> 1, lines |-> r.lines,
                             main_lines |-> r.main_lines]
             /\ strings_file' = (1 :> r.strings)
  /\ UNCHANGED << tool_vars, program, code, labels, string_blocks, current_string_block >>
  /\ UNCHANGED machine_vars

\* load_string_blocks: every block starts as [''] and is filled by index
LoadStringBlocks ==
  /\ phase = "files"
  /\ phase' = "strings_loaded"
  /\ string_blocks' =
       [b \in DOMAIN strings_file |->
          IF strings_file[b] = << >> THEN << "" >> ELSE strings_file[b]]
  /\ UNCHANGED << tool_vars, program, asm_file, strings_file, code, labels,
                  current_string_block >>
  /\ UNCHANGED machine_vars

\* parse_asm: the String Block header selects the block (set_string_block),
\* then the two passes
ParseAsm ==
  /\ phase = "strings_loaded"
  /\ phase' = "parsed"
  /\ current_string_block' =
       IF asm_file.string_block # 0
          /\ asm_file.string_block \in DOMAIN string_blocks
       THEN string_blocks[asm_file.string_block]
       ELSE current_string_block
  /\ labels' = FirstPassLabels(asm_file.lines, 1, Len(asm_file.lines), 0)
  /\ code' = SecondPassCode(asm_file.lines, 1, Len(asm_file.lines), 0, labels')
  /\ UNCHANGED << tool_vars, program, asm_file, strings_file, string_blocks >>
  /\ UNCHANGED machine_vars

InitializeMemory ==
  /\ phase = "parsed"
  /\ phase' = "initialized"
  /\ memory' = [a \in DOMAIN memory \cup DOMAIN game_globals |->
                  IF a \in DOMAIN game_globals THEN game_globals[a]
                  ELSE memory[a]]
  /\ base_pointer' = memory_slots
  /\ stack_pointer' = initial_stack_pointer
  /\ UNCHANGED << tool_vars, program, asm_file, strings_file, code, labels,
                  string_blocks, current_string_block, result_register, pc,
                  call_level, finished, waiting_response, transcript, fault,
                  io_wait, call_frames, steps, resumes >>

\* execute(): "self.pc = 0", then the loop
Execute ==
  /\ phase = "initialized"
  /\ phase' = "executing"
  /\ pc' = 0
  /\ UNCHANGED << tool_vars, program, asm_file, strings_file, code, labels,
                  string_blocks, current_string_block, memory,
                  stack_pointer, base_pointer, result_register, call_level,
                  finished, waiting_response, transcript, fault, io_wait,
                  call_frames, steps, resumes >>

\* the guard of the loop in execute()
Running ==
  /\ phase = "executing" /\ io_wait = NoWait
  /\ ~finished /\ ~waiting_response /\ pc < Len(code)
  /\ steps < MaxSteps

\* The state a loop iteration leaves when its handler produced machine m.
\* A completed iteration (wait = NoWait, no exception) ends with the check
\* "if self.pc >= len(self.code): self.finished = True".
Commit(m, frames, wait, executed) ==
  /\ memory' = m.memory
  /\ stack_pointer' = m.stack_pointer
  /\ base_pointer' = m.base_pointer
  /\ result_register' = m.result_register
  /\ pc' = m.pc
  /\ call_level' = m.call_level
  /\ waiting_response' = m.waiting_response
  /\ transcript' = m.transcript
  /\ finished' = (m.finished
                  \/ (m.fault = "" /\ wait = NoWait /\ m.pc >= Len(code)))
  /\ fault' = m.fault
  /\ phase' = IF m.fault # "" THEN "raised" ELSE phase
  /\ io_wait' = IF m.fault # "" THEN NoWait ELSE wait
  /\ call_frames' = frames
  /\ steps' = steps + executed
  /\ UNCHANGED << tool_vars, program, asm_file, strings_file, code, labels,
                  string_blocks, current_string_block, resumes >>

Fetched(opcode) == Running /\ InCode(pc) /\ CodeAt(pc) = opcode

\* ------------------------------------------- one action per opcode handler
OpNop ==
  Fetched(0) /\ Commit(op_nop(Machine), call_frames, NoWait, 1)
OpAdd ==
  Fetched(1) /\ Commit(op_add(Machine), call_frames, NoWait, 1)
OpMul ==
  Fetched(2) /\ Commit(op_mul(Machine), call_frames, NoWait, 1)
OpSub ==
  Fetched(3) /\ Commit(op_sub(Machine), call_frames, NoWait, 1)
OpDiv ==
  Fetched(4) /\ Commit(op_div(Machine), call_frames, NoWait, 1)
OpMod ==
  Fetched(5) /\ Commit(op_mod(Machine), call_frames, NoWait, 1)
OpOr ==
  Fetched(6) /\ Commit(op_or(Machine), call_frames, NoWait, 1)
OpAnd ==
  Fetched(7) /\ Commit(op_and(Machine), call_frames, NoWait, 1)
OpNot ==
  Fetched(8) /\ Commit(op_not(Machine), call_frames, NoWait, 1)
OpTstgt ==
  Fetched(9) /\ Commit(op_tstgt(Machine), call_frames, NoWait, 1)
OpTstge ==
  Fetched(10) /\ Commit(op_tstge(Machine), call_frames, NoWait, 1)
OpTstlt ==
  Fetched(11) /\ Commit(op_tstlt(Machine), call_frames, NoWait, 1)
OpTstle ==
  Fetched(12) /\ Commit(op_tstle(Machine), call_frames, NoWait, 1)
OpTsteq ==
  Fetched(13) /\ Commit(op_tsteq(Machine), call_frames, NoWait, 1)
OpTstne ==
  Fetched(14) /\ Commit(op_tstne(Machine), call_frames, NoWait, 1)
OpJmp ==
  Fetched(15) /\ Commit(op_jmp(Machine), call_frames, NoWait, 1)
OpBeq ==
  Fetched(16) /\ Commit(op_beq(Machine), call_frames, NoWait, 1)
OpBne ==
  Fetched(17) /\ Commit(op_bne(Machine), call_frames, NoWait, 1)
OpBra ==
  Fetched(18) /\ Commit(op_bra(Machine), call_frames, NoWait, 1)
OpPushi ==
  Fetched(22) /\ Commit(op_pushi(Machine), call_frames, NoWait, 1)
OpPushiEff ==
  Fetched(23) /\ Commit(op_pushi_eff(Machine), call_frames, NoWait, 1)
OpPop ==
  Fetched(24) /\ Commit(op_pop(Machine), call_frames, NoWait, 1)
OpSwap ==
  Fetched(25) /\ Commit(op_swap(Machine), call_frames, NoWait, 1)
OpPushbp ==
  Fetched(26) /\ Commit(op_pushbp(Machine), call_frames, NoWait, 1)
OpPopbp ==
  Fetched(27) /\ Commit(op_popbp(Machine), call_frames, NoWait, 1)
OpSptobp ==
  Fetched(28) /\ Commit(op_sptobp(Machine), call_frames, NoWait, 1)
OpBptosp ==
  Fetched(29) /\ Commit(op_bptosp(Machine), call_frames, NoWait, 1)
OpAddsp ==
  Fetched(30) /\ Commit(op_addsp(Machine), call_frames, NoWait, 1)
OpFetchm ==
  Fetched(31) /\ Commit(op_fetchm(Machine), call_frames, NoWait, 1)
OpSto ==
  Fetched(32) /\ Commit(op_sto(Machine), call_frames, NoWait, 1)
OpOffset ==
  Fetched(33) /\ Commit(op_offset(Machine), call_frames, NoWait, 1)
OpStart ==
  Fetched(34) /\ Commit(op_start(Machine), call_frames, NoWait, 1)
OpSaveReg ==
  Fetched(35) /\ Commit(op_save_reg(Machine), call_frames, NoWait, 1)
OpPushReg ==
  Fetched(36) /\ Commit(op_push_reg(Machine), call_frames, NoWait, 1)
OpExitOp ==
  Fetched(38) /\ Commit(op_exit_op(Machine), call_frames, NoWait, 1)
OpSayOp ==
  Fetched(39) /\ Commit(op_say_op(Machine), call_frames, NoWait, 1)
OpOpneg ==
  Fetched(41) /\ Commit(op_opneg(Machine), call_frames, NoWait, 1)

\* CALL and RET also maintain the history of outstanding calls
OpCall ==
  /\ Fetched(19)
  /\ Commit(op_call(Machine),
            Append(call_frames,
                   [ret |-> pc + 2, level |-> call_level,
                    bp |-> base_pointer, sp |-> stack_pointer]),
            NoWait, 1)
OpRet ==
  /\ Fetched(21)
  /\ Commit(op_ret(Machine),
            IF call_frames = << >> THEN << >>
            ELSE SubSeq(call_frames, 1, Len(call_frames) - 1),
            NoWait, 1)

HandledOpcodes == (0 .. 36) \cup {38, 39, 41}

\* "Unknown opcode: ... at PC=..."; self.pc += 1
UnknownOpcode ==
  /\ Running /\ InCode(pc) /\ CodeAt(pc) \notin HandledOpcodes
  /\ Commit(advance(Machine, 1), call_frames, NoWait, 1)

\* self.code[self.pc] with pc below -len(code)
FetchFault ==
  /\ Running /\ ~InCode(pc)
  /\ Commit(Raise(Machine, "IndexError"), call_frames, NoWait, 0)

\* CALLI of an id that is not in imported_functions
OpCalliUnknown ==
  /\ Fetched(20)
  /\ IF InCode(pc + 1) THEN operand(Machine) \notin ImportedFunctionIds
     ELSE TRUE
  /\ Commit(calli_unknown(Machine), call_frames, NoWait, 1)

\* CALLI of a handler that returns at once
Immediate(id, r) ==
  CASE id = 5 -> func_random(Machine, r)
    [] id = 16 -> func_set_quest(Machine)
    [] id = 37 -> func_gronk_door(Machine)
OpCalli ==
  /\ Fetched(20) /\ InCode(pc + 1)
  /\ operand(Machine) \in ModelledIds \ BlockingIds
  /\ \E r \in IF operand(Machine) = 5 THEN RandomOutcomes(Machine) ELSE {0} :
       Commit(calli_return(Immediate(operand(Machine), r)), call_frames,
              NoWait, 1)

\* CALLI of babl_menu, babl_fmenu or babl_ask up to the call of input():
\* the handler has popped its arguments and set waiting_response
Prompt(id) ==
  CASE id = 0 -> func_babl_menu(Machine)
    [] id = 1 -> func_babl_fmenu(Machine)
    [] id = 3 -> func_babl_ask(Machine)
PromptOptions(id) ==
  CASE id = 0 -> menu_options(Machine, second(Machine), 0)
    [] id = 1 -> fmenu_options(Machine, second(Machine),
                               top(pop(pop(Machine))), 0)
    [] id = 3 -> << >>
OpCalliPrompt ==
  /\ Fetched(20) /\ InCode(pc + 1)
  /\ operand(Machine) \in BlockingIds
  /\ Commit(Prompt(operand(Machine)), call_frames,
            [func |-> CASE operand(Machine) = 0 -> "babl_menu"
                        [] operand(Machine) = 1 -> "babl_fmenu"
                        [] operand(Machine) = 3 -> "babl_ask",
             valid_indices |-> PromptOptions(operand(Machine)),
             sp |-> stack_pointer, count |-> top(Machine)],
            1)

\* input() returns what the player typed: the handler finishes, op_calli
\* pushes result_register and moves on, the loop iteration ends
Reply(choice) ==
  CASE io_wait.func = "babl_menu" ->
         babl_menu_reply(Machine, io_wait.valid_indices, choice)
    [] io_wait.func = "babl_fmenu" ->
         babl_fmenu_reply(Machine, io_wait.valid_indices, choice)
    [] io_wait.func = "babl_ask" -> babl_ask_reply(Machine)
InputReply ==
  /\ phase = "executing" /\ io_wait # NoWait
  /\ \E choice \in Replies :
       Commit(calli_return(Reply(choice)), call_frames, NoWait, 0)

\* input() raises EOFError (standard input is closed): the exception leaves
\* the handler, op_calli and execute()
InputEOF ==
  /\ phase = "executing" /\ io_wait # NoWait
  /\ Commit(Raise(Machine, "EOFError"), call_frames, NoWait, 0)

\* the loop guard fails: execute() returns to its caller
ExecuteReturn ==
  /\ phase = "executing" /\ io_wait = NoWait
  /\ finished \/ waiting_response \/ pc >= Len(code)
  /\ phase' = "returned"
  /\ UNCHANGED << tool_vars, program, asm_file, strings_file, code, labels,
                  string_blocks, current_string_block >>
  /\ UNCHANGED machine_vars

\* the values a host passes to resume_conversation
HostChoices == {1, 2}

\* resume_conversation(choice) called by the host while the VM waits for a
\* response: result_register, waiting_response, then execute() from its
\* first line
ResumeConversation ==
  /\ phase \in {"returned", "raised"}
  /\ waiting_response
  /\ resumes < MaxResumes
  /\ \E choice \in HostChoices : result_register' = choice
  /\ waiting_response' = FALSE
  /\ pc' = 0
  /\ phase' = "executing"
  /\ fault' = ""
  /\ resumes' = resumes + 1
  /\ UNCHANGED << tool_vars, program, asm_file, strings_file, code, labels,
                  string_blocks, current_string_block, memory,
                  stack_pointer, base_pointer, call_level, finished,
                  transcript, io_wait, call_frames, steps >>

Next ==
  \/ Compile \/ LoadStringBlocks \/ ParseAsm \/ InitializeMemory \/ Execute
  \/ OpNop \/ OpAdd \/ OpMul \/ OpSub \/ OpDiv \/ OpMod \/ OpOr \/ OpAnd
  \/ OpNot \/ OpTstgt \/ OpTstge \/ OpTstlt \/ OpTstle \/ OpTsteq
  \/ OpTstne \/ OpJmp \/ OpBeq \/ OpBne \/ OpBra \/ OpPushi \/ OpPushiEff
  \/ OpPop \/ OpSwap \/ OpPushbp \/ OpPopbp \/ OpSptobp \/ OpBptosp
  \/ OpAddsp \/ OpFetchm \/ OpSto \/ OpOffset \/ OpStart \/ OpSaveReg
  \/ OpPushReg \/ OpExitOp \/ OpSayOp \/ OpOpneg
  \/ OpCall \/ OpRet \/ UnknownOpcode \/ FetchFault
  \/ OpCalliUnknown \/ OpCalli \/ OpCalliPrompt \/ InputReply \/ InputEOF
  \/ ExecuteReturn \/ ResumeConversation

Spec == Init /\ [][Next]_vars

\* =========================================================== ArkCompressor
\* uw_cnv_compiler.py, ArkCompressor.compress and .decompress (the extractor's
\* ArkDecompressor.decompress is the same code).  Data are sequences of
\* bytes; an index i of the code is position i + 1 here.
MaxRunLength == 130
MaxLiteralLength == 128

\* the first position in lo..hi whose byte is not value, hi + 1 when there
\* is none (the inner "while" that counts a run, by halving the range)
RECURSIVE FirstOther(_, _, _, _)
FirstOther(data, lo, hi, value) ==
  IF lo > hi THEN hi + 1
  ELSE IF lo = hi THEN (IF data[lo] # value THEN lo ELSE lo + 1)
  ELSE LET mid == (lo + hi) \div 2
           left == FirstOther(data, lo, mid, value)
       IN IF left <= mid THEN left ELSE FirstOther(data, mid + 1, hi, value)

\* "i + 2 < len(input_data) and input_data[i] == input_data[i+1]
\*  == input_data[i+2]"
run_ahead(input_data, i) ==
  /\ i + 2 < Len(input_data)
  /\ input_data[i + 1] = input_data[i + 2]
  /\ input_data[i + 2] = input_data[i + 3]

\* the first index in lo..hi at which a run of three starts, hi + 1 when none
RECURSIVE FirstRunAhead(_, _, _)
FirstRunAhead(input_data, lo, hi) ==
  IF lo > hi THEN hi + 1
  ELSE IF lo = hi THEN (IF run_ahead(input_data, lo) THEN lo ELSE lo + 1)
  ELSE LET mid == (lo + hi) \div 2
           left == FirstRunAhead(input_data, lo, mid)
       IN IF left <= mid THEN left
          ELSE FirstRunAhead(input_data, mid + 1, hi)

Smaller(a, b) == IF a < b THEN a ELSE b

\* run_length when the outer loop is at index i
run_length(input_data, i) ==
  IF i + 2 < Len(input_data) /\ input_data[i + 1] = input_data[i + 2]
  THEN FirstOther(input_data, i + 2,
                  Smaller(Len(input_data), i + MaxRunLength),
                  input_data[i + 1]) - (i + 1)
  ELSE 1

\* the index at which the literal that starts at literal_start ends
literal_end(input_data, literal_start) ==
  LET limit == Smaller(Len(input_data), literal_start + MaxLiteralLength)
  IN Smaller(FirstRunAhead(input_data, literal_start, limit - 1), limit)

\* a run token whose count byte is one too high
run_token_off_by_one(run_len, run_value) ==
  << PyOr(128, run_len - 2), run_value >>
run_token(run_len, run_value) == << PyOr(128, run_len - 3), run_value >>
literal_token(bytes) == << Len(bytes) - 1 >> \o bytes

\* n iterations of compress's loop from index i: the bytes appended to
\* compressed and the index reached
RECURSIVE compress_loop(_, _, _)
compress_loop(input_data, i, n) ==
  IF n = 0 \/ i >= Len(input_data) THEN [compressed |-> << >>, i |-> i]
  ELSE LET Then(bytes, j) ==
             LET rest == compress_loop(input_data, j, n - 1)
             IN [compressed |-> bytes \o rest.compressed, i |-> rest.i]
       IN IF run_length(input_data, i) >= 3
          THEN Then(run_token(run_length(input_data, i), input_data[i + 1]),
                    i + run_length(input_data, i))
          ELSE LET e == literal_end(input_data, i)
               IN IF e = i THEN [compressed |-> << >>, i |-> i]
                  ELSE Then(literal_token(SubSeq(input_data, i + 1, e)), e)
\* the output of compress from index i on, sixteen iterations at a time
RECURSIVE compress_from(_, _)
compress_from(input_data, i) ==
  IF i >= Len(input_data) THEN << >>
  ELSE LET part == compress_loop(input_data, i, 16)
       IN IF part.i = i THEN << >>
          ELSE part.compressed \o compress_from(input_data, part.i)
compress(input_data) == compress_from(input_data, 0)

\* n iterations of decompress's loop from index i: the bytes appended to
\* output and the index reached (the break on a short literal ends the loop)
RECURSIVE decompress_loop(_, _, _)
decompress_loop(input_data, i, n) ==
  IF n = 0 \/ i >= Len(input_data) THEN [output |-> << >>, i |-> i]
  ELSE LET control_byte == input_data[i + 1]
           low == PyAnd(control_byte, 127)
           Then(bytes, j) ==
             LET rest == decompress_loop(input_data, j, n - 1)
             IN [output |-> bytes \o rest.output, i |-> rest.i]
       IN IF PyAnd(control_byte, 128) # 0
          THEN IF i + 1 < Len(input_data)
               THEN Then([k \in 1 .. low + 3 |-> input_data[i + 2]], i + 2)
               ELSE Then(<< >>, i + 1)
          ELSE IF i + 1 + low + 1 <= Len(input_data)
               THEN Then(SubSeq(input_data, i + 2, i + 2 + low), i + 2 + low)
               ELSE [output |-> << >>, i |-> Len(input_data)]
\* the output of decompress from index i on, sixteen iterations at a time
RECURSIVE decompress_from(_, _)
decompress_from(input_data, i) ==
  IF i >= Len(input_data) THEN << >>
  ELSE LET part == decompress_loop(input_data, i, 16)
       IN part.output \o decompress_from(input_data, part.i)
decompress(input_data) == decompress_from(input_data, 0)

\* ---- the byte strings compressed: up to MaxSegments stretches, each a run
\* of one byte or an alternation of two, of a length around the two limits
MaxSegments == 2
SegmentLengths ==
  { 1, 2, 3, MaxLiteralLength, MaxLiteralLength + 1, MaxRunLength + 1,
    MaxRunLength + 2 }
Segments ==
  { [kind |-> k, len |-> n] : k \in {"a", "b", "ab"}, n \in SegmentLengths }
SegmentBytes(seg) ==
  [k \in 1 .. seg.len |->
     CASE seg.kind = "a" -> 65
       [] seg.kind = "b" -> 200
       [] OTHER -> IF k % 2 = 1 THEN 65 ELSE 200]
RECURSIVE Expand(_)
Expand(segs) ==
  IF segs = << >> THEN << >>
  ELSE SegmentBytes(Head(segs)) \o Expand(Tail(segs))
CodecInputs ==
  { Expand(segs) :
      segs \in UNION { [1 .. n -> Segments] : n \in 0 .. MaxSegments } }

\* the VM is not run
VMIdle ==
  /\ program = [kind |-> "none", p |-> 0, q |-> 0]
  /\ phase = "idle" /\ asm_file = NoFile
  /\ strings_file = EmptyMap /\ memory = EmptyMap
  /\ stack_pointer = 0 /\ base_pointer = 0 /\ result_register = 0
  /\ pc = 0 /\ call_level = 1
  /\ finished = FALSE /\ waiting_response = FALSE
  /\ code = << >> /\ labels = EmptyMap
  /\ string_blocks = EmptyMap /\ current_string_block = << >>
  /\ transcript = << >> /\ fault = "" /\ io_wait = NoWait
  /\ call_frames = << >> /\ steps = 0 /\ resumes = 0

InitCodec ==
  /\ VMIdle
  /\ \E x \in CodecInputs :
       codec = [stage |-> "data", input_data |-> x, compressed |-> << >>,
                output |-> << >>]
  /\ ark = Idle /\ strings = Idle /\ slot = Idle
  /\ temps = Idle /\ compiler = Idle /\ worker = Idle

CodecCompress ==
  /\ codec.stage = "data"
  /\ codec' = [codec EXCEPT !.stage = "compressed",
                            !.compressed = compress(codec.input_data)]
  /\ UNCHANGED << vm_vars, ark, strings, slot, temps, compiler, worker >>

CodecDecompress ==
  /\ codec.stage = "compressed"
  /\ codec' = [codec EXCEPT !.stage = "decompressed",
                            !.output = decompress(codec.compressed)]
  /\ UNCHANGED << vm_vars, ark, strings, slot, temps, compiler, worker >>

NextCodec == CodecCompress \/ CodecDecompress
SpecCodec == InitCodec /\ [][NextCodec]_vars

\* decompress handed a stream that was cut short: what compress wrote for
\* some data, without its last byte
InitTruncated ==
  /\ VMIdle
  /\ \E x \in CodecInputs \ { << >> } :
       codec = [stage |-> "compressed", input_data |-> x,
                compressed |-> SubSeq(compress(x), 1, Len(compress(x)) - 1),
                output |-> << >>]
  /\ ark = Idle /\ strings = Idle /\ slot = Idle
  /\ temps = Idle /\ compiler = Idle /\ worker = Idle
SpecTruncated == InitTruncated /\ [][CodecDecompress]_vars

\* ================================================= CNV.ARK slots and files
\* struct.pack("<H", n) and "<I": little-endian bytes (n within range)
u16(n) == << n % 256, (n \div 256) % 256 >>
u32(n) == u16(n % 65536) \o u16(n \div 65536)
\* struct.unpack of the bytes at index pos (the caller checks the length)
rd16(data, pos) == data[pos + 1] + 256 * data[pos + 2]
rd32(data, pos) == rd16(data, pos) + 65536 * rd16(data, pos + 2)
InU16(n) == n >= 0 /\ n < 65536

\* ArkCompressor.is_compressed: more than 64 of the first 256 bytes have
\* the high bit set
is_compressed(data) ==
  Cardinality({ i \in 1 .. Smaller(256, Len(data)) : data[i] >= 128 }) > 64

\* ConversationCompiler.build_binary for a compiler holding conv
import_type_word(imp) == IF imp.is_function THEN 273 ELSE 271
return_type_word(imp) ==
  CASE imp.return_type = "void" -> 0
    [] imp.return_type = "string" -> 299
    [] OTHER -> 297
import_data_of(imp) ==
  u16(Len(imp.name)) \o imp.name \o u16(imp.id_or_addr) \o u16(1)
  \o u16(import_type_word(imp)) \o u16(return_type_word(imp))
RECURSIVE import_data(_)
import_data(imports) ==
  IF imports = << >> THEN << >>
  ELSE import_data_of(Head(imports)) \o import_data(Tail(imports))
\* the code words as bytes, lo..hi by halves
RECURSIVE code_data(_, _, _)
code_data(words, lo, hi) ==
  IF lo > hi THEN << >>
  ELSE IF lo = hi THEN u16(words[lo])
  ELSE code_data(words, lo, (lo + hi) \div 2)
       \o code_data(words, (lo + hi) \div 2 + 1, hi)
unknown1 == 2088
build_binary(conv) ==
  u16(unknown1) \o u16(0) \o u16(Len(conv.code)) \o u16(0) \o u16(0)
  \o u16(conv.string_block) \o u16(conv.memory_slots)
  \o u16(Len(conv.imports))
  \o import_data(conv.imports) \o code_data(conv.code, 1, Len(conv.code))
\* struct.pack raises struct.error for a value outside 0..65535 (and for
\* string_block None, here -1)
build_binary_raises(conv) ==
  \/ ~InU16(conv.string_block) \/ ~InU16(conv.memory_slots)
  \/ \E k \in 1 .. Len(conv.code) : ~InU16(conv.code[k])
  \/ \E k \in 1 .. Len(conv.imports) : ~InU16(conv.imports[k].id_or_addr)

\* ConversationExtractor._read_import_record from index pos, count records:
\* [imports, pos], or error when a field cannot be read in full
RECURSIVE read_imports(_, _, _)
read_imports(data, pos, count) ==
  IF count = 0 THEN [error |-> FALSE, imports |-> << >>, pos |-> pos]
  ELSE IF pos + 2 > Len(data)
       THEN [error |-> TRUE, imports |-> << >>, pos |-> pos]
  ELSE LET name_length == rd16(data, pos)
           name_end == Smaller(Len(data), pos + 2 + name_length)
       IN IF name_end + 8 > Len(data)
          THEN [error |-> TRUE, imports |-> << >>, pos |-> pos]
          ELSE LET rest == read_imports(data, name_end + 8, count - 1)
                   record ==
                     [ name_length |-> name_length,
                       name |-> SubSeq(data, pos + 3, name_end),
                       id_or_addr |-> rd16(data, name_end),
                       unknown |-> rd16(data, name_end + 2),
                       import_type |-> rd16(data, name_end + 4),
                       return_type |-> rd16(data, name_end + 6) ]
               IN [rest EXCEPT !.imports = << record >> \o @]

NotExtracted == [error |-> TRUE]
\* ConversationExtractor.extract_conversation at offset
extract_conversation(data, offset) ==
  IF offset + 16 > Len(data) THEN NotExtracted
  ELSE LET imps == read_imports(data, offset + 16, rd16(data, offset + 14))
       IN IF imps.error THEN NotExtracted
          ELSE [ error |-> FALSE,
                 unknown1 |-> rd16(data, offset),
                 unknown2 |-> rd16(data, offset + 2),
                 code_size |-> rd16(data, offset + 4),
                 unknown3 |-> rd16(data, offset + 6),
                 unknown4 |-> rd16(data, offset + 8),
                 string_block |-> rd16(data, offset + 10),
                 memory_slots |-> rd16(data, offset + 12),
                 num_imports |-> rd16(data, offset + 14),
                 imports |-> imps.imports,
                 code_data |->
                   SubSeq(data, imps.pos + 1,
                          Smaller(Len(data),
                                  imps.pos + 2 * rd16(data, offset + 4))) ]

EmptySlot == [error |-> FALSE, empty |-> TRUE]
\* the slot whose table entry is at index pos: offset 0 is an empty slot; an
\* offset of 2^31 or more lies beyond the data, as any offset past the end
slot_at(data, pos) ==
  IF rd16(data, pos) = 0 /\ rd16(data, pos + 2) = 0 THEN EmptySlot
  ELSE IF rd16(data, pos + 2) >= 32768 THEN NotExtracted
  ELSE extract_conversation(data, rd32(data, pos))
\* ConversationExtractor.extract_all on decompressed data: what each slot
\* holds; << >> with error when the slot table cannot be read
extract_all(data) ==
  IF Len(data) < 2 \/ 2 + 4 * rd16(data, 0) > Len(data)
  THEN [error |-> TRUE, slots |-> << >>]
  ELSE [error |-> FALSE,
        slots |-> [i \in 1 .. rd16(data, 0) |->
                     slot_at(data, 2 + 4 * (i - 1))]]

\* ---------------------------------------------------------------- archives
MaxSlots == 3
HighWords == 66
\* a short conversation, and one whose code is PUSHI 0x8080 repeated
ConvA ==
  [ string_block |-> 1, memory_slots |-> 32, imports |-> << >>,
    code |-> << 34, 22, 5, 39, 38 >> ]
ConvH ==
  [ string_block |-> 2, memory_slots |-> 33, imports |-> << >>,
    code |-> [k \in 1 .. HighWords |-> IF k % 2 = 1 THEN 22 ELSE 32896] ]
\* the conversation the compiler holds: one imported function "ba"
ConvNew ==
  [ string_block |-> 7, memory_slots |-> 40,
    imports |-> << [ name |-> << 98, 97 >>, id_or_addr |-> 0,
                     is_function |-> TRUE, return_type |-> "int" ] >>,
    code |-> << 34, 22, 1, 39, 38 >> ]
NoConv == [empty |-> TRUE]
SlotContents == { ConvA, ConvH, NoConv }
\* an uncompressed CNV.ARK: slot count, offset table, then the slots' data
RECURSIVE ArchiveBody(_, _, _)
ArchiveBody(contents, k, at) ==
  IF k > Len(contents) THEN [offsets |-> << >>, data |-> << >>]
  ELSE IF contents[k] = NoConv
       THEN LET rest == ArchiveBody(contents, k + 1, at)
            IN [rest EXCEPT !.offsets = u32(0) \o @]
  ELSE LET binary_data == build_binary(contents[k])
           rest == ArchiveBody(contents, k + 1, at + Len(binary_data))
       IN [ offsets |-> u32(at) \o rest.offsets,
            data |-> binary_data \o rest.data ]
Archive(contents) ==
  LET body == ArchiveBody(contents, 1, 2 + 4 * Len(contents))
  IN u16(Len(contents)) \o body.offsets \o body.data
ArchiveContents ==
  UNION { [1 .. n -> SlotContents] : n \in 1 .. MaxSlots }

Missing == [exists |-> FALSE, data |-> << >>]
OnDisk(data) == [exists |-> TRUE, data |-> data]
None == "None"

InitArk ==
  /\ VMIdle
  /\ codec = Idle /\ strings = Idle /\ slot = Idle
  /\ temps = Idle /\ compiler = Idle /\ worker = Idle
  /\ \E contents \in ArchiveContents, present \in BOOLEAN,
        slot_idx \in 0 .. MaxSlots, has_slot_idx \in BOOLEAN,
        backup \in BOOLEAN :
       /\ has_slot_idx \/ slot_idx = 0
       /\
         ark = [ stage |-> "start",
               cnv_ark_file |->
                 IF present THEN OnDisk(Archive(contents)) ELSE Missing,
               backup_file |->
                 IF backup THEN OnDisk(<< 0, 0 >>) ELSE Missing,
               original |->
                 IF present THEN OnDisk(Archive(contents)) ELSE Missing,
               has_slot_idx |-> has_slot_idx,
               slot_idx |-> slot_idx,
               conv |-> ConvNew,
               is_compressed |-> FALSE,
               ark_bytes |-> << >>,
               binary_data |-> << >>,
               result |-> None ]

Returned(value) == [ark EXCEPT !.stage = "returned", !.result = value]

\* update_cnv_ark up to ark_bytes.extend(binary_data): nothing on disk has
\* changed yet; every early return and every exception returns False
ArkPrepare ==
  /\ ark.stage = "start"
  /\ ark' =
       IF ~ark.has_slot_idx \/ ~ark.cnv_ark_file.exists
       THEN Returned("False")
       ELSE LET ark_data == ark.cnv_ark_file.data
                compressed == is_compressed(ark_data)
                ark_bytes == IF compressed THEN decompress(ark_data)
                             ELSE ark_data
                offset_pos == 2 + ark.slot_idx * 4
            IN IF \/ Len(ark_bytes) < 2
                  \/ ark.slot_idx >= rd16(ark_bytes, 0)
                  \/ build_binary_raises(ark.conv)
                  \/ offset_pos + 4 > Len(ark_bytes)
               THEN Returned("False")
               ELSE [ark EXCEPT
                       !.stage = "prepared",
                       !.is_compressed = compressed,
                       !.binary_data = build_binary(ark.conv),
                       !.ark_bytes =
                         SubSeq(ark_bytes, 1, offset_pos)
                         \o u32(Len(ark_bytes))
                         \o SubSeq(ark_bytes, offset_pos + 5, Len(ark_bytes))
                         \o build_binary(ark.conv)]
  /\ UNCHANGED << vm_vars, codec, strings, slot, temps, compiler, worker >>

\* os.unlink(backup_file) when a backup exists
ArkUnlinkBackup ==
  /\ ark.stage = "prepared"
  /\ ark.backup_file.exists
  /\ ark' = [ark EXCEPT !.backup_file = Missing]
  /\ UNCHANGED << vm_vars, codec, strings, slot, temps, compiler, worker >>

\* os.rename(cnv_ark_file, backup_file)
ArkRename ==
  /\ ark.stage = "prepared"
  /\ ~ark.backup_file.exists
  /\ ark' = [ark EXCEPT !.stage = "renamed",
                        !.backup_file = ark.cnv_ark_file,
                        !.cnv_ark_file = Missing]
  /\ UNCHANGED << vm_vars, codec, strings, slot, temps, compiler, worker >>

\* what update_cnv_ark writes: compressed again when it decompressed
written_data ==
  IF ark.is_compressed THEN compress(ark.ark_bytes) ELSE ark.ark_bytes

\* open(cnv_ark_file, 'wb') creates the file empty
ArkOpen ==
  /\ ark.stage = "renamed"
  /\ ark' = [ark EXCEPT !.stage = "open", !.cnv_ark_file = OnDisk(<< >>)]
  /\ UNCHANGED << vm_vars, codec, strings, slot, temps, compiler, worker >>

\* open raises OSError: the except clause returns False
ArkOpenRaises ==
  /\ ark.stage = "renamed"
  /\ ark' = Returned("False")
  /\ UNCHANGED << vm_vars, codec, strings, slot, temps, compiler, worker >>

\* f.write of the whole data, then return True
ArkWrite ==
  /\ ark.stage = "open"
  /\ ark' = [Returned("True") EXCEPT !.cnv_ark_file = OnDisk(written_data)]
  /\ UNCHANGED << vm_vars, codec, strings, slot, temps, compiler, worker >>

\* f.write raises OSError after part of the data reached the file
ArkWriteRaises ==
  /\ ark.stage = "open"
  /\ \E written \in {0, Len(written_data) \div 2} :
       ark' = [Returned("False") EXCEPT
                 !.cnv_ark_file = OnDisk(SubSeq(written_data, 1, written))]
  /\ UNCHANGED << vm_vars, codec, strings, slot, temps, compiler, worker >>

NextArk ==
  \/ ArkPrepare
  \/ ArkUnlinkBackup
  \/ ArkRename
  \/ ArkOpen
  \/ ArkOpenRaises
  \/ ArkWrite
  \/ ArkWriteRaises

SpecArk == InitArk /\ [][NextArk]_vars

\* ---- a run of updates of one archive: uw_cnv_compiler.py --update-cnv run
\* again on the file the run before wrote
MaxUpdates == 2
UpdateSlots == 2
\* the count of high-bit bytes is_compressed does not yet take for a
\* compressed file
Threshold == 64
\* a conversation with exactly Threshold bytes that have the high bit set
ConvEdge ==
  [ string_block |-> 3, memory_slots |-> 34, imports |-> << >>,
    code |-> [k \in 1 .. Threshold |-> IF k % 2 = 1 THEN 22 ELSE 32896] ]
UpdateContents ==
  UNION { [1 .. n -> { ConvA, ConvEdge, NoConv }] : n \in 1 .. UpdateSlots }

InitUpdates ==
  /\ VMIdle
  /\ codec = Idle /\ strings = Idle /\ slot = Idle
  /\ temps = Idle /\ compiler = Idle /\ worker = Idle
  /\ \E contents \in UpdateContents, slot_idx \in 0 .. UpdateSlots :
       ark = [ stage |-> "start",
               cnv_ark_file |-> OnDisk(Archive(contents)),
               backup_file |-> Missing,
               original |-> OnDisk(Archive(contents)),
               has_slot_idx |-> TRUE,
               slot_idx |-> slot_idx,
               conv |-> ConvNew,
               is_compressed |-> FALSE,
               ark_bytes |-> << >>,
               binary_data |-> << >>,
               result |-> None,
               updates |-> 1 ]

\* the compiler is run once more, for some slot, on the archive as the
\* successful update before left it
ArkAgain ==
  /\ ark.stage = "returned" /\ ark.result = "True"
  /\ ark.updates < MaxUpdates
  /\ \E slot_idx \in 0 .. UpdateSlots :
       ark' = [ark EXCEPT !.stage = "start", !.slot_idx = slot_idx,
                          !.result = None, !.updates = @ + 1]
  /\ UNCHANGED << vm_vars, codec, strings, slot, temps, compiler, worker >>

NextUpdates == NextArk \/ ArkAgain
SpecUpdates == InitUpdates /\ [][NextUpdates]_vars

\* ============================================================ STRINGS.PAK
\* A Huffman node is [symbol, parent, left, right]; 255 marks a missing
\* child, the root is the last node. Characters are their code points.
Node(symbol, parent, left, right) ==
  [symbol |-> symbol, parent |-> parent, left |-> left, right |-> right]
Leaf(symbol, parent) == Node(symbol, parent, 255, 255)
EndOfString == 124

\* StringsPacker._generate_huffman_codes: generate_codes(node_idx, code),
\* a later assignment to huffman_codes[char] replacing an earlier one
RECURSIVE generate_codes(_, _, _)
generate_codes(huffman_nodes, node_idx, prefix) ==
  LET node == huffman_nodes[node_idx + 1]
  IN IF node.left = 255 /\ node.right = 255
     THEN node.symbol :> prefix
     ELSE LET left_codes ==
                IF node.left # 255
                THEN generate_codes(huffman_nodes, node.left, Append(prefix, 0))
                ELSE EmptyMap
              right_codes ==
                IF node.right # 255
                THEN generate_codes(huffman_nodes, node.right, Append(prefix, 1))
                ELSE EmptyMap
          IN right_codes @@ left_codes
_generate_huffman_codes(huffman_nodes) ==
  IF huffman_nodes = << >> THEN EmptyMap
  ELSE generate_codes(huffman_nodes, Len(huffman_nodes) - 1, << >>)

\* encode_string: the bits of s and its terminator, a character without a
\* code taking the code of the space when there is one
RECURSIVE bit_string(_, _)
bit_string(huffman_codes, s) ==
  IF s = << >> THEN << >>
  ELSE (IF Head(s) \in DOMAIN huffman_codes THEN huffman_codes[Head(s)]
        ELSE IF 32 \in DOMAIN huffman_codes THEN huffman_codes[32]
        ELSE << >>)
       \o bit_string(huffman_codes, Tail(s))
\* eight bits, least significant first
byte_of_lsb_first(bits) ==
  bits[1] + 2 * bits[2] + 4 * bits[3] + 8 * bits[4]
  + 16 * bits[5] + 32 * bits[6] + 64 * bits[7] + 128 * bits[8]
\* eight bits, most significant first
byte_of(bits) ==
  128 * bits[1] + 64 * bits[2] + 32 * bits[3] + 16 * bits[4]
  + 8 * bits[5] + 4 * bits[6] + 2 * bits[7] + bits[8]
\* the final byte of fewer than eight bits, shifted left by the missing ones
byte_of_remaining(bits) ==
  byte_of([k \in 1 .. 8 |-> IF k <= Len(bits) THEN bits[k] ELSE 0])
RECURSIVE bytes_data(_)
bytes_data(bits) ==
  IF bits = << >> THEN << >>
  ELSE IF Len(bits) < 8 THEN << byte_of_remaining(bits) >>
  ELSE << byte_of(SubSeq(bits, 1, 8)) >>
       \o bytes_data(SubSeq(bits, 9, Len(bits)))
encode_string(huffman_codes, s) ==
  bytes_data(bit_string(huffman_codes,
               IF s # << >> /\ s[Len(s)] = EndOfString THEN s
               ELSE Append(s, EndOfString)))

\* UaGameStrings.load, the inner loop: from node down to a leaf, reading a
\* byte of data at index pos whenever the bits of raw are used up
RECURSIVE walk(_, _, _, _, _, _)
walk(huffman_nodes, data, pos, bit, raw, node) ==
  IF huffman_nodes[node + 1].left # 255 /\ huffman_nodes[node + 1].right # 255
  THEN IF bit = 0 /\ pos >= Len(data)
       THEN [eof |-> TRUE, node |-> node, pos |-> pos, bit |-> 8, raw |-> raw]
       ELSE LET byte == IF bit = 0 THEN data[pos + 1] ELSE raw
                bits_left == IF bit = 0 THEN 8 ELSE bit
            IN walk(huffman_nodes, data,
                    IF bit = 0 THEN pos + 1 ELSE pos,
                    bits_left - 1, (byte * 2) % 256,
                    IF PyAnd(byte, 128) # 0
                    THEN huffman_nodes[node + 1].right
                    ELSE huffman_nodes[node + 1].left)
  ELSE [eof |-> FALSE, node |-> node, pos |-> pos, bit |-> bit, raw |-> raw]
\* the while True loop: characters up to the end marker or the end of data
RECURSIVE decode_from(_, _, _, _, _)
decode_from(huffman_nodes, data, pos, bit, raw) ==
  LET at == walk(huffman_nodes, data, pos, bit, raw, Len(huffman_nodes) - 1)
      c == huffman_nodes[at.node + 1].symbol
  IN IF at.eof \/ c = EndOfString THEN << >>
     ELSE << c >> \o decode_from(huffman_nodes, data, at.pos, at.bit, at.raw)
\* the string that starts at index pos
decode_string(huffman_nodes, data, pos) ==
  decode_from(huffman_nodes, data, pos, 0, 0)

\* the elements of a set of numbers in ascending order
RECURSIVE sorted(_)
sorted(S) ==
  IF S = {} THEN << >>
  ELSE LET least == CHOOSE x \in S : \A y \in S : x <= y
       IN << least >> \o sorted(S \ {least})
RECURSIVE concat(_)
concat(seqs) == IF seqs = << >> THEN << >> ELSE Head(seqs) \o concat(Tail(seqs))
RECURSIVE total_length(_)
total_length(seqs) ==
  IF seqs = << >> THEN 0 ELSE Len(Head(seqs)) + total_length(Tail(seqs))

\* StringsPacker.write_pak_file: one block, its string count, the offset of
\* each encoded string from the end of the offset table, the encoded strings
block_data(huffman_codes, block_strings) ==
  LET encoded == [k \in 1 .. Len(block_strings) |->
                    encode_string(huffman_codes, block_strings[k])]
  IN u16(Len(block_strings))
     \o concat([k \in 1 .. Len(block_strings) |->
                  u16(total_length(SubSeq(encoded, 1, k - 1)))])
     \o concat(encoded)
\* the file written for blocks (block id -> strings), blocks in id order
pak_file(blocks, huffman_nodes) ==
  LET huffman_codes == _generate_huffman_codes(huffman_nodes)
      block_ids == sorted(DOMAIN blocks)
      header_size == 2 + Len(huffman_nodes) * 4 + 2 + Len(block_ids) * 6
      data == [k \in 1 .. Len(block_ids) |->
                 block_data(huffman_codes, blocks[block_ids[k]])]
  IN u16(Len(huffman_nodes))
     \o concat([k \in 1 .. Len(huffman_nodes) |->
                  << huffman_nodes[k].symbol, huffman_nodes[k].parent,
                     huffman_nodes[k].left, huffman_nodes[k].right >>])
     \o u16(Len(block_ids))
     \o concat([k \in 1 .. Len(block_ids) |->
                  u16(block_ids[k])
                  \o u32(header_size + total_length(SubSeq(data, 1, k - 1)))])
     \o concat(data)
\* write_pak_file returns False without blocks or without a tree
write_pak_file(blocks, huffman_nodes) ==
  IF DOMAIN blocks = {} \/ huffman_nodes = << >>
  THEN [written |-> FALSE, data |-> << >>]
  ELSE [written |-> TRUE, data |-> pak_file(blocks, huffman_nodes)]

\* whether decoding from index pos comes to the end of the data before it
\* has read an end marker
RECURSIVE ends_early_from(_, _, _, _, _)
ends_early_from(huffman_nodes, data, pos, bit, raw) ==
  LET at == walk(huffman_nodes, data, pos, bit, raw, Len(huffman_nodes) - 1)
  IN IF at.eof THEN TRUE
     ELSE IF huffman_nodes[at.node + 1].symbol = EndOfString THEN FALSE
     ELSE ends_early_from(huffman_nodes, data, at.pos, at.bit, at.raw)
\* the indices where the strings of an archive start, its tables being
\* readable
string_starts(data) ==
  LET infos == 2 + 4 * rd16(data, 0) + 2
      sblocks == rd16(data, 2 + 4 * rd16(data, 0))
      offset(k) == rd32(data, infos + 6 * (k - 1) + 2)
  IN UNION { { offset(k) + (rd16(data, offset(k)) + 1) * 2
               + rd16(data, offset(k) + 2 * n) :
                 n \in 1 .. rd16(data, offset(k)) } : k \in 1 .. sblocks }
\* UaGameStrings.load: None when a field lies beyond the end of the file,
\* and when the data end inside a string (i is set to sblocks there, and
\* block_infos[i] raises IndexError once the block is done)
NotLoaded == [error |-> TRUE, huffman_nodes |-> << >>, allstrings |-> EmptyMap]
load_block(huffman_nodes, data, offset) ==
  LET numstrings == rd16(data, offset)
      curoffset == offset + (numstrings + 1) * 2
  IN [n \in 1 .. numstrings |->
        decode_string(huffman_nodes, data,
                      curoffset + rd16(data, offset + 2 * n))]
load_block_raises(data, offset) ==
  \/ offset + 2 > Len(data)
  \/ offset + 2 + 2 * rd16(data, offset) > Len(data)
\* allstrings after the blocks from the k-th on, a later block of the same
\* id replacing an earlier one
RECURSIVE load_blocks(_, _, _, _, _)
load_blocks(huffman_nodes, data, infos, k, sblocks) ==
  IF k > sblocks THEN EmptyMap
  ELSE load_blocks(huffman_nodes, data, infos, k + 1, sblocks)
       @@ (rd16(data, infos + 6 * (k - 1))
           :> load_block(huffman_nodes, data,
                         rd32(data, infos + 6 * (k - 1) + 2)))
load(data) ==
  IF Len(data) < 2 \/ 2 + 4 * rd16(data, 0) + 2 > Len(data) THEN NotLoaded
  ELSE LET nodenum == rd16(data, 0)
           huffman_nodes ==
             [k \in 1 .. nodenum |->
                Node(data[4 * k - 1], data[4 * k],
                     data[4 * k + 1], data[4 * k + 2])]
           sblocks == rd16(data, 2 + 4 * nodenum)
           infos == 2 + 4 * nodenum + 2
       IN IF \/ infos + 6 * sblocks > Len(data)
             \/ \E k \in 1 .. sblocks :
                  \/ rd16(data, infos + 6 * (k - 1) + 4) >= 32768
                  \/ load_block_raises(data,
                                       rd32(data, infos + 6 * (k - 1) + 2))
             \/ \E pos \in string_starts(data) :
                  ends_early_from(huffman_nodes, data, pos, 0, 0)
          THEN NotLoaded
          ELSE [error |-> FALSE, huffman_nodes |-> huffman_nodes,
                allstrings |->
                  load_blocks(huffman_nodes, data, infos, 1, sblocks)]

\* ------------------------------------------------- the extracted text file
\* the digits of n >= 0 in a base, as characters 0-9 a-f
digit(d) == IF d < 10 THEN 48 + d ELSE 87 + d
RECURSIVE digits(_, _)
digits(n, base) ==
  IF n < base THEN << digit(n) >>
  ELSE Append(digits(n \div base, base), digit(n % base))
\* f"{i:04x}"
hex04(n) ==
  LET d == digits(n, 16)
  IN [k \in 1 .. 4 - Len(d) |-> 48] \o d
\* str.replace
RECURSIVE replace(_, _, _)
replace(text, old, new) ==
  IF Len(text) < Len(old) THEN text
  ELSE IF SubSeq(text, 1, Len(old)) = old
       THEN new \o replace(SubSeq(text, Len(old) + 1, Len(text)), old, new)
       ELSE << Head(text) >> \o replace(Tail(text), old, new)
Newline == << 10 >>
EscapedNewline == << 92, 110 >>
BlockPrefix == << 98, 108, 111, 99, 107, 58, 32 >>

\* uw-strings-extractor.py main: the lines of one block
block_text(block_id, stringlist) ==
  BlockPrefix \o hex04(block_id) \o << 59, 32 >>
  \o digits(Len(stringlist), 10)
  \o << 32, 115, 116, 114, 105, 110, 103, 115, 46 >> \o Newline
  \o concat([k \in 1 .. Len(stringlist) |->
               digits(k - 1, 10) \o << 58, 32 >>
               \o replace(stringlist[k], Newline, EscapedNewline)
               \o Newline])
  \o Newline
\* the whole of uw-strings.txt: blocks 1 to 3898 that have strings
strings_text(allstrings) ==
  LET written == sorted({ i \in DOMAIN allstrings :
                            i >= 1 /\ i < 3899 /\ allstrings[i] # << >> })
      total_blocks ==
        Cardinality({ i \in DOMAIN allstrings : allstrings[i] # << >> })
  IN << 83, 84, 82, 73, 78, 71, 83, 46, 80, 65, 75, 58, 32 >>
     \o digits(total_blocks, 10)
     \o << 32, 115, 116, 114, 105, 110, 103, 32, 98, 108, 111, 99, 107,
           115, 46 >>
     \o Newline \o Newline
     \o concat([k \in 1 .. Len(written) |->
                  block_text(written[k], allstrings[written[k]])])

\* ------------------------------------------------- StringsPacker, the text
\* the lines a text-mode file yields: ended by \n, \r or \r\n
lines_of(text) ==
  LET ends == sorted({ k \in 1 .. Len(text) :
                         \/ text[k] = 10
                         \/ text[k] = 13 /\ (k = Len(text) \/ text[k + 1] # 10) })
      start(j) == IF j = 1 THEN 1 ELSE ends[j - 1] + 1
      stop(j) == IF text[ends[j]] = 10 /\ ends[j] > start(j)
                    /\ text[ends[j] - 1] = 13
                 THEN ends[j] - 2 ELSE ends[j] - 1
      last == IF ends = << >> THEN 1 ELSE ends[Len(ends)] + 1
  IN [j \in 1 .. Len(ends) |-> SubSeq(text, start(j), stop(j))]
     \o (IF last <= Len(text) THEN << SubSeq(text, last, Len(text)) >>
         ELSE << >>)
\* str.strip: whitespace removed at both ends
Whitespace == {9, 10, 11, 12, 13, 28, 29, 30, 31, 32, 133, 160}
RECURSIVE lstrip(_)
lstrip(text) ==
  IF text # << >> /\ Head(text) \in Whitespace THEN lstrip(Tail(text))
  ELSE text
RECURSIVE rstrip(_)
rstrip(text) ==
  IF text # << >> /\ text[Len(text)] \in Whitespace
  THEN rstrip(SubSeq(text, 1, Len(text) - 1))
  ELSE text
strip(text) == rstrip(lstrip(text))
\* the index of the first sep in text, 0 without one
RECURSIVE find(_, _, _)
find(text, sep, k) ==
  IF k > Len(text) THEN 0
  ELSE IF text[k] = sep THEN k
  ELSE find(text, sep, k + 1)
\* int(text, base) for a text of digits; anything else raises ValueError
digit_value(c) ==
  IF c >= 48 /\ c <= 57 THEN c - 48
  ELSE IF c >= 97 /\ c <= 102 THEN c - 87
  ELSE IF c >= 65 /\ c <= 70 THEN c - 55
  ELSE 99
is_number(text, base) ==
  text # << >> /\ \A k \in 1 .. Len(text) : digit_value(text[k]) < base
RECURSIVE number(_, _)
number(text, base) ==
  IF text = << >> THEN 0
  ELSE number(SubSeq(text, 1, Len(text) - 1), base) * base
       + digit_value(text[Len(text)])

\* the text of a string entry as parse_text_file stores it
entry_text(text) == replace(strip(text), EscapedNewline, Newline)
\* parse_text_file, one line: st is [current_block, blocks], block 0 - 1
\* standing for None
parse_line(st, raw_line) ==
  LET line == strip(raw_line)
  IN IF line = << >> THEN st
     ELSE IF Len(line) >= Len(BlockPrefix)
             /\ SubSeq(line, 1, Len(BlockPrefix)) = BlockPrefix
     THEN LET semicolon == find(line, 59, 1)
              part == IF semicolon = 0 THEN line
                      ELSE SubSeq(line, 1, semicolon - 1)
              block_id_str == strip(replace(part, BlockPrefix, << >>))
          IN IF is_number(block_id_str, 16)
             THEN [current_block |-> number(block_id_str, 16),
                   blocks |-> (number(block_id_str, 16) :> << >>)
                              @@ st.blocks]
             ELSE st
     ELSE IF st.current_block >= 0 /\ find(line, 58, 1) # 0
     THEN LET colon == find(line, 58, 1)
              index_str == strip(SubSeq(line, 1, colon - 1))
              text == entry_text(SubSeq(line, colon + 1, Len(line)))
              old == st.blocks[st.current_block]
          IN IF is_number(index_str, 10)
             THEN LET entry_index == number(index_str, 10)
                  IN [st EXCEPT !.blocks[st.current_block] =
                        [k \in 1 .. (IF Len(old) <= entry_index THEN entry_index + 1
                                     ELSE Len(old)) |->
                           IF k = entry_index + 1 THEN text
                           ELSE IF k <= Len(old) THEN old[k]
                           ELSE << >>]]
             ELSE st
     ELSE st
RECURSIVE parse_lines(_, _, _)
parse_lines(st, lines, k) ==
  IF k > Len(lines) THEN st
  ELSE parse_lines(parse_line(st, lines[k]), lines, k + 1)
parse_text_file(text) ==
  parse_lines([current_block |-> 0 - 1, blocks |-> EmptyMap],
              lines_of(text), 1).blocks

\* -------------------------------------------------- archives of strings
MaxStringLen == 2
\* two trees over the characters a, space, newline and the end marker |
BalancedTree ==
  << Leaf(97, 4), Leaf(32, 4), Leaf(10, 5), Leaf(EndOfString, 5),
     Node(0, 6, 0, 1), Node(0, 6, 2, 3), Node(0, 255, 4, 5) >>
SkewedTree ==
  << Leaf(97, 6), Leaf(32, 5), Leaf(10, 4), Leaf(EndOfString, 4),
     Node(0, 5, 2, 3), Node(0, 6, 1, 4), Node(0, 255, 0, 5) >>
HuffmanTrees == { BalancedTree, SkewedTree }
Alphabet == {97, 32, 10}
Texts(longest) == UNION { [1 .. n -> Alphabet] : n \in 0 .. longest }
\* one block of two strings, or two blocks of one string each
StringBlocks ==
  { (1 :> << s, t >>) : s \in Texts(MaxStringLen), t \in Texts(1) }
  \cup { (1 :> << s >>) @@ (26 :> << t >>) :
           s \in Texts(MaxStringLen), t \in Texts(1) }

\* the archive as the packer writes it, or one that has lost its last bytes
Truncations == {0, 1, 2}
truncated(data, cut) == SubSeq(data, 1, Len(data) - cut)

InitStrings ==
  /\ VMIdle
  /\ codec = Idle /\ ark = Idle /\ slot = Idle
  /\ temps = Idle /\ compiler = Idle /\ worker = Idle
  /\ \E blocks \in StringBlocks, huffman_nodes \in HuffmanTrees,
        cut \in Truncations :
       strings = [ stage |-> "pak",
                   round |-> 1,
                   pak |-> truncated(pak_file(blocks, huffman_nodes), cut),
                   huffman_nodes |-> << >>,
                   allstrings |-> EmptyMap,
                   text |-> << >>,
                   blocks |-> EmptyMap,
                   first |-> EmptyMap,
                   samples |-> << >> ]

\* uw-strings-extractor.py main: UaGameStrings.load and save_metadata
StringsLoad ==
  /\ strings.stage = "pak"
  /\ strings' =
       IF load(strings.pak).error THEN [strings EXCEPT !.stage = "failed"]
       ELSE [strings EXCEPT
               !.stage = "loaded",
               !.huffman_nodes = load(strings.pak).huffman_nodes,
               !.allstrings = load(strings.pak).allstrings,
               !.first = IF strings.round = 1
                         THEN load(strings.pak).allstrings ELSE @]
  /\ UNCHANGED << vm_vars, codec, ark, slot, temps, compiler, worker >>

\* uw-strings-extractor.py main: uw-strings.txt written
StringsWriteText ==
  /\ strings.stage = "loaded"
  /\ strings' = [strings EXCEPT !.stage = "text",
                                !.text = strings_text(strings.allstrings)]
  /\ UNCHANGED << vm_vars, codec, ark, slot, temps, compiler, worker >>

\* uw-strings-packer.py: load_metadata (the tree) and parse_text_file
StringsParse ==
  /\ strings.stage = "text"
  /\ strings.round = 1
  /\ strings' = [strings EXCEPT !.stage = "parsed",
                                !.blocks = parse_text_file(strings.text)]
  /\ UNCHANGED << vm_vars, codec, ark, slot, temps, compiler, worker >>

\* uw-strings-packer.py: write_pak_file
StringsWritePak ==
  /\ strings.stage = "parsed"
  /\ LET out == write_pak_file(strings.blocks, strings.huffman_nodes)
     IN strings' =
          IF out.written
          THEN [strings EXCEPT !.stage = "pak", !.round = 2,
                               !.pak = out.data]
          ELSE [strings EXCEPT !.stage = "failed"]
  /\ UNCHANGED << vm_vars, codec, ark, slot, temps, compiler, worker >>

\* uw-strings-analyzer.py, _decode_string_sample: the string of a block
\* decoded like load decodes it; what was decoded is returned when the data
\* end
_decode_string_sample(huffman_nodes, data, offset, string_idx) ==
  LET string_count == rd16(data, offset)
      base_offset == offset + 2 + string_count * 2
  IN decode_string(huffman_nodes, data,
                   base_offset + rd16(data, offset + 2 + 2 * string_idx))
\* the blocks _analyze_string_encodings samples: the first five at most, and
\* of these the ones that have a string
sampled_blocks(data) ==
  LET infos == 2 + 4 * rd16(data, 0) + 2
      sblocks == rd16(data, 2 + 4 * rd16(data, 0))
  IN { k \in 1 .. Smaller(5, sblocks) :
         rd16(data, rd32(data, infos + 6 * (k - 1) + 2)) > 0 }
\* StringsPakAnalyzer.analyze: the header and the block tables read as load
\* reads them, then string 0 of each sampled block
StringsSample ==
  /\ strings.stage = "pak"
  /\ strings.round = 1
  /\ LET data == strings.pak
         nodenum == rd16(data, 0)
         huffman_nodes ==
           [k \in 1 .. nodenum |->
              Node(data[4 * k - 1], data[4 * k],
                   data[4 * k + 1], data[4 * k + 2])]
         infos == 2 + 4 * nodenum + 2
         sblocks == rd16(data, 2 + 4 * nodenum)
         unreadable ==
           \/ Len(data) < 2 \/ 2 + 4 * nodenum + 2 > Len(data)
           \/ infos + 6 * sblocks > Len(data)
           \/ \E k \in 1 .. sblocks :
                \/ rd16(data, infos + 6 * (k - 1) + 4) >= 32768
                \/ load_block_raises(data, rd32(data, infos + 6 * (k - 1) + 2))
         blocks == sorted(sampled_blocks(data))
     IN strings' =
          IF unreadable THEN [strings EXCEPT !.stage = "failed"]
          ELSE [strings EXCEPT
                  !.stage = "sampled",
                  !.huffman_nodes = huffman_nodes,
                  !.samples =
                    [j \in 1 .. Len(blocks) |->
                       _decode_string_sample(
                         huffman_nodes, data,
                         rd32(data, infos + 6 * (blocks[j] - 1) + 2), 0)]]
  /\ UNCHANGED << vm_vars, codec, ark, slot, temps, compiler, worker >>

NextStrings ==
  \/ StringsSample
  \/ StringsLoad
  \/ StringsWriteText
  \/ StringsParse
  \/ StringsWritePak

SpecStrings == InitStrings /\ [][NextStrings]_vars

\* ============================================ CNV.ARK slots as assembly text
\* the printable ASCII characters, " " (32) to "~" (126), and ord(); a space
\* stands where the grave accent (96) is
Ascii ==
  " !\"#$%&'()*+,-./0123456789:;<=>?@ABCDEFGHIJKLMNOPQRSTUVWXYZ[\\]^_ abcdefghijklmnopqrstuvwxyz{|}~"
Ord ==
  [c \in { SubSeq(Ascii, i, i) : i \in 1 .. Len(Ascii) } |->
     31 + SetMin({ i \in 1 .. Len(Ascii) : SubSeq(Ascii, i, i) = c })]
ord(c) == Ord[c]
\* the characters of a literal text
chars(s) == [k \in 1 .. Len(s) |-> ord(SubSeq(s, k, k))]
\* str.upper
upper(text) ==
  [k \in 1 .. Len(text) |->
     IF text[k] >= 97 /\ text[k] <= 122 THEN text[k] - 32 ELSE text[k]]
\* f"{n:0<width>X}"
format_X(n, width) ==
  LET d == upper(digits(n, 16))
  IN [k \in 1 .. width - Len(d) |-> 48] \o d
\* str.startswith, "sub in text" and the index of the first sub from k (0
\* without one)
startswith(text, sub) ==
  Len(text) >= Len(sub) /\ SubSeq(text, 1, Len(sub)) = sub
RECURSIVE find_text(_, _, _)
find_text(text, sub, k) ==
  IF k + Len(sub) - 1 > Len(text) THEN 0
  ELSE IF SubSeq(text, k, k + Len(sub) - 1) = sub THEN k
  ELSE find_text(text, sub, k + 1)
contains(text, sub) == find_text(text, sub, 1) # 0

\* ------------------------------------------------ ConversationDecompiler
\* self.opcodes: the names, opcode 0 first; one operand for 0x0F to 0x14,
\* 0x16 and 0x17, which are the opcodes of instruction_patterns as well
OpcodeNames ==
  << "NOP", "OPADD", "OPMUL", "OPSUB", "OPDIV", "OPMOD", "OPOR", "OPAND",
     "OPNOT", "TSTGT", "TSTGE", "TSTLT", "TSTLE", "TSTEQ", "TSTNE", "JMP",
     "BEQ", "BNE", "BRA", "CALL", "CALLI", "RET", "PUSHI", "PUSHI_EFF",
     "POP", "SWAP", "PUSHBP", "POPBP", "SPTOBP", "BPTOSP", "ADDSP",
     "FETCHM", "STO", "OFFSET", "START", "SAVE_REG", "PUSH_REG", "STRCMP",
     "EXIT_OP", "SAY_OP", "RESPOND_OP", "OPNEG" >>
opcodes == [k \in 1 .. Len(OpcodeNames) |-> chars(OpcodeNames[k])]
instruction_patterns == (15 .. 20) \cup {22, 23}
JumpOpcodes == 15 .. 19
DecimalOperand == {20, 23}
operands(opcode) == IF opcode \in instruction_patterns THEN 1 ELSE 0
op_name(opcode) ==
  IF opcode < Len(opcodes) THEN opcodes[opcode + 1]
  ELSE chars("UNKNOWN_") \o format_X(opcode, 2)

\* _find_jump_targets: self.labels as the byte offsets in the order their
\* labels were made, label_0 first
RECURSIVE _find_jump_targets(_, _, _)
_find_jump_targets(code_bytes, pos, found) ==
  IF pos + 2 > Len(code_bytes) THEN found
  ELSE LET opcode == code_bytes[pos + 1]
           target_pos == rd16(code_bytes, pos + 2) * 2
           made == IF /\ opcode \in JumpOpcodes
                      /\ pos + 4 <= Len(code_bytes)
                      /\ \A k \in 1 .. Len(found) : found[k] # target_pos
                   THEN Append(found, target_pos)
                   ELSE found
       IN _find_jump_targets(code_bytes, pos + 2 + operands(opcode) * 2, made)
\* self.labels.get(pos, ""): the label's name, << >> without a label
label_of(found, pos) ==
  IF \E k \in 1 .. Len(found) : found[k] = pos
  THEN chars("label_")
       \o digits((CHOOSE k \in 1 .. Len(found) : found[k] = pos) - 1, 10)
  ELSE << >>
\* the pattern of the opcode formatted with the operand
instruction_text(opcode, value) ==
  op_name(opcode) \o chars(" ")
  \o (IF opcode \in DecimalOperand THEN digits(value, 10)
      ELSE chars("0x") \o format_X(value, 4))
\* decompile, the second pass from byte offset pos
RECURSIVE decompile_from(_, _, _)
decompile_from(code_bytes, found, pos) ==
  IF pos >= Len(code_bytes) THEN << >>
  ELSE
    LET label_line == IF label_of(found, pos) # << >>
                      THEN << label_of(found, pos) \o chars(":") >>
                      ELSE << >>
        opcode == code_bytes[pos + 1]
        value == rd16(code_bytes, pos + 2)
    IN IF pos + 2 > Len(code_bytes)
       THEN label_line
            \o << chars("; ERROR: Truncated instruction at offset ")
                  \o digits(pos, 10) >>
       ELSE IF opcode \notin instruction_patterns
       THEN label_line \o << op_name(opcode) >>
            \o decompile_from(code_bytes, found, pos + 2)
       ELSE IF pos + 4 > Len(code_bytes)
       THEN label_line
            \o << op_name(opcode) \o chars("  ; ERROR: Missing operand") >>
            \o decompile_from(code_bytes, found, pos + 2)
       ELSE label_line
            \o << instruction_text(opcode, value)
                  \o (IF /\ opcode \in JumpOpcodes
                         /\ label_of(found, value * 2) # << >>
                      THEN chars("  ; -> ") \o label_of(found, value * 2)
                      ELSE << >>) >>
            \o decompile_from(code_bytes, found, pos + 4)
decompile(code_bytes) ==
  decompile_from(code_bytes, _find_jump_targets(code_bytes, 0, << >>), 0)

\* the index of the last of the decimal digits that start at index k of a
\* text, k - 1 if none
RECURSIVE digits_end_at(_, _)
digits_end_at(text, k) ==
  IF k <= Len(text) /\ text[k] >= 48 /\ text[k] <= 57
  THEN digits_end_at(text, k + 1)
  ELSE k - 1
\* ----------------------------- ConversationExtractor, the assembly file
FunctionType == 273
VariableType == 271
_get_return_type_name(return_type) ==
  CASE return_type = 0 -> chars("void")
    [] return_type = 297 -> chars("int")
    [] return_type = 299 -> chars("string")
    [] OTHER -> chars("unknown_type_") \o format_X(return_type, 4)
\* the comment line of import i; none for an import that is neither a
\* function nor a variable
import_lines(i, imp) ==
  IF imp.import_type = FunctionType
  THEN << chars("; Import ") \o digits(i, 10) \o chars(": Function ")
          \o imp.name \o chars(", ID: ") \o digits(imp.id_or_addr, 10)
          \o chars(", Returns: ")
          \o _get_return_type_name(imp.return_type) >>
  ELSE IF imp.import_type = VariableType
  THEN << chars("; Import ") \o digits(i, 10) \o chars(": Variable ")
          \o imp.name \o chars(", Addr: 0x")
          \o format_X(imp.id_or_addr, 4) >>
  ELSE << >>
\* _write_conversation_file: the text of conversation_XXXX.asm
asm_text(slot_idx, conversation) ==
  LET written ==
        << chars("; Decompiled conversation script"),
           chars("; Slot: ") \o format_X(slot_idx, 4),
           chars("; String Block: ") \o digits(conversation.string_block, 10),
           << >>,
           chars("; Imported Functions/Variables:") >>
        \o concat([k \in 1 .. Len(conversation.imports) |->
                     import_lines(k - 1, conversation.imports[k])])
        \o << << >> >>
        \o decompile(conversation.code_data)
  IN concat([k \in 1 .. Len(written) |-> written[k] \o Newline])

\* ------------------------------------------ ConversationCompiler.parse_asm
\* text.split(sep)[1] for a text that holds sep
split_second(text, sep) ==
  LET from == find_text(text, sep, 1) + Len(sep)
      next == find_text(text, sep, from)
  IN SubSeq(text, from, IF next = 0 THEN Len(text) ELSE next - 1)
\* the metadata of the first 20 lines: a field is 0 - 1 while no line has
\* set it (None for slot_idx and string_block, 0 for memory_slots is kept
\* as 0), raises is the ValueError of int()
RECURSIVE metadata(_, _, _)
metadata(lines, k, st) ==
  IF k > Smaller(20, Len(lines)) \/ st.raises THEN st
  ELSE
    LET line == strip(lines[k])
        Number(sep, base, field) ==
          LET text == strip(split_second(line, chars(sep)))
          IN IF is_number(text, base)
             THEN [st EXCEPT ![field] = number(text, base)]
             ELSE [st EXCEPT !.raises = TRUE]
    IN metadata(lines, k + 1,
         IF contains(line, chars("; Slot:"))
         THEN Number("Slot:", 16, "slot_idx")
         ELSE IF contains(line, chars("; String Block:"))
         THEN Number("String Block:", 10, "string_block")
         ELSE IF contains(line, chars("; Memory Slots:"))
         THEN Number("Memory Slots:", 10, "memory_slots")
         ELSE st)

\* the return type as build_binary tells it apart
return_type_of(text) ==
  CASE text = chars("void") -> "void"
    [] text = chars("string") -> "string"
    [] text = chars("int") -> "int"
    [] OTHER -> "other"
NoImport == [matched |-> FALSE, raises |-> FALSE]
\* _parse_import_line for a line that starts with "; Import ": the two
\* patterns matched at the start of the line; raises is the ValueError of
\* int(), after which parse_asm leaves the import out
_parse_import_line(line) ==
  LET idx_end == digits_end_at(line, 10)
      Literal(text, k) ==
        /\ k + Len(chars(text)) - 1 <= Len(line)
        /\ SubSeq(line, k, k + Len(chars(text)) - 1) = chars(text)
      \* the group [^,]+ from index k: up to the next comma or the end
      Group(k) == LET comma == find(line, 44, k)
                  IN IF comma = 0 THEN Len(line) ELSE comma - 1
      f_name == idx_end + 1 + Len(chars(": Function "))
      f_id == Group(f_name) + 1 + Len(chars(", ID: "))
      f_ret == Group(f_id) + 1 + Len(chars(", Returns: "))
      function_match ==
        /\ idx_end >= 10
        /\ Literal(": Function ", idx_end + 1)
        /\ Group(f_name) >= f_name /\ Literal(", ID: ", Group(f_name) + 1)
        /\ Group(f_id) >= f_id /\ Literal(", Returns: ", Group(f_id) + 1)
        /\ Group(f_ret) >= f_ret
      v_name == idx_end + 1 + Len(chars(": Variable "))
      v_addr == Group(v_name) + 1 + Len(chars(", Addr: "))
      variable_match ==
        /\ idx_end >= 10
        /\ Literal(": Variable ", idx_end + 1)
        /\ Group(v_name) >= v_name /\ Literal(", Addr: ", Group(v_name) + 1)
        /\ Group(v_addr) >= v_addr
      id_str == strip(SubSeq(line, f_id, Group(f_id)))
      addr_str == SubSeq(line, v_addr, Group(v_addr))
      hex == startswith(addr_str, chars("0x"))
      addr_digits == strip(IF hex THEN SubSeq(addr_str, 3, Len(addr_str))
                           ELSE addr_str)
  IN IF function_match
     THEN IF ~is_number(id_str, 10) THEN [NoImport EXCEPT !.raises = TRUE]
          ELSE [ matched |-> TRUE, raises |-> FALSE,
                 import |->
                   [ name |-> strip(SubSeq(line, f_name, Group(f_name))),
                     is_function |-> TRUE,
                     id_or_addr |-> number(id_str, 10),
                     return_type |->
                       return_type_of(strip(SubSeq(line, f_ret,
                                                   Group(f_ret)))) ] ]
     ELSE IF variable_match
     THEN IF ~is_number(addr_digits, IF hex THEN 16 ELSE 10)
          THEN [NoImport EXCEPT !.raises = TRUE]
          ELSE [ matched |-> TRUE, raises |-> FALSE,
                 import |->
                   [ name |-> strip(SubSeq(line, v_name, Group(v_name))),
                     is_function |-> FALSE,
                     id_or_addr |->
                       number(addr_digits, IF hex THEN 16 ELSE 10),
                     return_type |-> "int" ] ]
     ELSE NoImport
\* the import section: the imports of the "; Import " comment lines after
\* the "; Imported Functions/Variables:" line
RECURSIVE parse_imports(_, _, _)
parse_imports(lines, k, import_section) ==
  IF k > Len(lines) THEN << >>
  ELSE
    LET line == strip(lines[k])
    IN IF line = << >> \/ ~startswith(line, chars(";"))
       THEN parse_imports(lines, k + 1, import_section)
       ELSE IF contains(line, chars("; Imported Functions/Variables:"))
       THEN parse_imports(lines, k + 1, TRUE)
       ELSE IF import_section /\ startswith(line, chars("; Import "))
                              /\ _parse_import_line(line).matched
       THEN << _parse_import_line(line).import >>
            \o parse_imports(lines, k + 1, import_section)
       ELSE parse_imports(lines, k + 1, import_section)

\* _clean_line: an inline comment cut off, then strip
_clean_line(line) ==
  strip(IF contains(line, chars(";")) /\ ~startswith(line, chars(";"))
        THEN SubSeq(line, 1, find(line, 59, 1) - 1)
        ELSE line)
\* the first pass: self.labels as [name, pos] in the order of the lines (a
\* later entry of the same name replaces an earlier one)
RECURSIVE find_labels(_, _, _)
find_labels(lines, k, current_pos) ==
  IF k > Len(lines) THEN << >>
  ELSE
    LET line == _clean_line(lines[k])
    IN IF line = << >> THEN find_labels(lines, k + 1, current_pos)
       ELSE IF contains(line, chars(":")) /\ ~startswith(line, chars(";"))
       THEN << [ name |-> strip(SubSeq(line, 1, find(line, 58, 1) - 1)),
                 pos |-> current_pos ] >>
            \o find_labels(lines, k + 1, current_pos)
       ELSE IF startswith(line, chars(";"))
       THEN find_labels(lines, k + 1, current_pos)
       ELSE find_labels(lines, k + 1,
                        current_pos
                        + (IF contains(line, chars(" ")) THEN 2 ELSE 1))
has_label(lbls, name) == \E k \in 1 .. Len(lbls) : lbls[k].name = name
label_pos(lbls, name) ==
  LET last == CHOOSE k \in 1 .. Len(lbls) :
                /\ lbls[k].name = name
                /\ \A j \in k + 1 .. Len(lbls) : lbls[j].name # name
  IN lbls[last].pos
\* _get_opcode_value: opcode_map holds the names and values of the
\* decompiler's table; 0 - 1 where it raises ValueError
_get_opcode_value(opcode_name) ==
  IF \E k \in 1 .. Len(opcodes) : opcodes[k] = opcode_name
  THEN (CHOOSE k \in 1 .. Len(opcodes) : opcodes[k] = opcode_name) - 1
  ELSE 0 - 1
\* int(text) of an optional minus sign and decimal digits; the fallback 0
\* for a text that is neither
int_or_zero(text, base) ==
  IF is_number(text, base) THEN number(text, base)
  ELSE IF startswith(text, chars("-")) /\ is_number(Tail(text), base)
  THEN 0 - number(Tail(text), base)
  ELSE 0
\* _parse_argument
_parse_argument(arg_str, opcode_name, lbls, current_pos) ==
  IF /\ has_label(lbls, arg_str)
     /\ opcode_name \in { chars("BEQ"), chars("BNE"), chars("BRA") }
  THEN label_pos(lbls, arg_str) - (current_pos + 2)
  ELSE IF /\ has_label(lbls, arg_str)
          /\ opcode_name \in { chars("JMP"), chars("CALL") }
  THEN label_pos(lbls, arg_str)
  ELSE IF startswith(arg_str, chars("0x"))
  THEN int_or_zero(SubSeq(arg_str, 3, Len(arg_str)), 16)
  ELSE int_or_zero(arg_str, 10)
\* _compile_instruction: the words of one instruction line, << 0 - 1 >>
\* where _get_opcode_value raises
_compile_instruction(line, lbls, current_pos) ==
  IF contains(line, chars(" "))
  THEN LET space == find(line, 32, 1)
           opcode_name == upper(strip(SubSeq(line, 1, space - 1)))
           arg_str == strip(SubSeq(line, space + 1, Len(line)))
       IN IF _get_opcode_value(opcode_name) < 0 THEN << 0 - 1 >>
          ELSE << _get_opcode_value(opcode_name),
                  _parse_argument(arg_str, opcode_name, lbls, current_pos) >>
  ELSE << _get_opcode_value(upper(line)) >>
\* the second pass: self.code, raises for an unknown opcode name
RECURSIVE compile_lines(_, _, _, _)
compile_lines(lines, k, lbls, current_pos) ==
  IF k > Len(lines) THEN [raises |-> FALSE, code |-> << >>]
  ELSE
    LET line == _clean_line(lines[k])
        words == _compile_instruction(line, lbls, current_pos)
    IN IF line = << >> \/ startswith(line, chars(";"))
          \/ contains(line, chars(":"))
       THEN compile_lines(lines, k + 1, lbls, current_pos)
       ELSE IF words[1] < 0 THEN [raises |-> TRUE, code |-> << >>]
       ELSE LET rest == compile_lines(lines, k + 1, lbls,
                                      current_pos + Len(words))
            IN [rest EXCEPT !.code = words \o @]
NotParsed == [ok |-> FALSE]
\* parse_asm of the file's text: the compiler's fields, ok FALSE where it
\* returns False
parse_asm(text) ==
  LET lines == lines_of(text)
      meta == metadata(lines, 1,
                       [ raises |-> FALSE, slot_idx |-> 0 - 1,
                         string_block |-> 0 - 1, memory_slots |-> 0 ])
      imports == parse_imports(lines, 1, FALSE)
      lbls == find_labels(lines, 1, 0)
      compiled == compile_lines(lines, 1, lbls, 0)
  IN IF meta.raises \/ compiled.raises THEN NotParsed
     ELSE [ ok |-> TRUE,
            slot_idx |-> meta.slot_idx,
            string_block |-> meta.string_block,
            memory_slots |-> IF meta.memory_slots = 0
                             THEN 32 + Len(imports)
                             ELSE meta.memory_slots,
            imports |-> imports,
            labels |-> lbls,
            code |-> compiled.code ]

\* ------------------------------------------- a slot through both tools
\* the bytes of a slot in CNV.ARK: the header, the import records, the code
RECURSIVE import_records(_)
import_records(imports) ==
  IF imports = << >> THEN << >>
  ELSE LET imp == Head(imports)
       IN u16(Len(imp.name)) \o imp.name \o u16(imp.id_or_addr)
          \o u16(imp.unknown) \o u16(imp.import_type)
          \o u16(imp.return_type) \o import_records(Tail(imports))
slot_bytes(string_block, slots, imports, words) ==
  u16(unknown1) \o u16(0) \o u16(Len(words)) \o u16(0) \o u16(0)
  \o u16(string_block) \o u16(slots) \o u16(Len(imports))
  \o import_records(imports) \o code_data(words, 1, Len(words))
Import(name, id_or_addr, import_type, return_type) ==
  [ name |-> chars(name), id_or_addr |-> id_or_addr, unknown |-> 1,
    import_type |-> import_type, return_type |-> return_type ]
\* none; a function returning int; a void function and a variable; a
\* function returning a string; a function of return type 0x012A; an import
\* of type 0x0110
SlotImports ==
  { << >>,
    << Import("babl_menu", 0, FunctionType, 297) >>,
    << Import("gronk_door", 12, FunctionType, 0),
       Import("play_hunger", 31, VariableType, 297) >>,
    << Import("get_name", 7, FunctionType, 299) >>,
    << Import("babl_ask", 3, FunctionType, 298) >>,
    << Import("odd", 1, 272, 297) >> }
\* straight-line code; JMP, BEQ and CALL; CALLI, PUSHI_EFF and a PUSHI of
\* 0xABCD; an opcode without a name; an opcode word with a high byte; a
\* PUSHI without its operand
SlotCodes ==
  { << 34, 22, 5, 39, 38 >>,
    << 22, 1, 16, 2, 15, 7, 0, 19, 10, 38, 21 >>,
    << 23, 3, 20, 0, 22, 43981, 38 >>,
    << 34, 42, 38 >>,
    << 290, 38 >>,
    << 38, 22 >> }
SlotStringBlocks == {1, 3585}
SlotIds == {1, 3599}
InitSlot ==
  /\ VMIdle
  /\ codec = Idle /\ ark = Idle /\ strings = Idle
  /\ temps = Idle /\ compiler = Idle /\ worker = Idle
  /\ \E string_block \in SlotStringBlocks, imports \in SlotImports,
        words \in SlotCodes, extra \in {0, 8}, slot_idx \in SlotIds :
       slot = [ stage |-> "archive",
                slot_idx |-> slot_idx,
                data |-> slot_bytes(string_block, 32 + Len(imports) + extra,
                                    imports, words),
                conversation |-> NotExtracted,
                asm |-> << >>,
                compiler |-> NotParsed,
                output |-> << >> ]

\* ConversationExtractor.extract_conversation up to the decompiled code
SlotExtract ==
  /\ slot.stage = "archive"
  /\ slot' = [slot EXCEPT !.stage = "extracted",
                          !.conversation = extract_conversation(slot.data, 0)]
  /\ UNCHANGED << vm_vars, codec, ark, strings, temps, compiler, worker >>

\* _write_conversation_file: conversation_XXXX.asm
SlotWriteAsm ==
  /\ slot.stage = "extracted"
  /\ slot' = [slot EXCEPT !.stage = "written",
                          !.asm = asm_text(slot.slot_idx, slot.conversation)]
  /\ UNCHANGED << vm_vars, codec, ark, strings, temps, compiler, worker >>

\* uw_cnv_compiler.py main: parse_asm; it exits when parse_asm is False
SlotParseAsm ==
  /\ slot.stage = "written"
  /\ LET parsed == parse_asm(slot.asm)
     IN slot' = [slot EXCEPT !.stage = IF parsed.ok THEN "parsed"
                                       ELSE "failed",
                             !.compiler = parsed]
  /\ UNCHANGED << vm_vars, codec, ark, strings, temps, compiler, worker >>

\* write_binary: the .bin file, or no file when build_binary raises
SlotWriteBinary ==
  /\ slot.stage = "parsed"
  /\ slot' = IF build_binary_raises(slot.compiler)
             THEN [slot EXCEPT !.stage = "failed"]
             ELSE [slot EXCEPT !.stage = "compiled",
                               !.output = build_binary(slot.compiler)]
  /\ UNCHANGED << vm_vars, codec, ark, strings, temps, compiler, worker >>

NextSlot == SlotExtract \/ SlotWriteAsm \/ SlotParseAsm \/ SlotWriteBinary
SpecSlot == InitSlot /\ [][NextSlot]_vars

\* ================================================== TempVariableManager
\* the calls made on one manager, MaxCalls at most
MaxCalls == 7
\* TempVariableManager.__init__
NewManager ==
  [ scoped_temp_vars |-> << >>, allocated_temps |-> {}, call_depth |-> 0,
    freed_temps |-> {} ]
\* opened is history: the cells handed out in each scope that is open, the
\* innermost last
InitTemps ==
  /\ VMIdle
  /\ codec = Idle /\ ark = Idle /\ strings = Idle /\ slot = Idle
  /\ compiler = Idle /\ worker = Idle
  /\ temps = [ stage |-> "calls", manager |-> NewManager, calls |-> 0,
               last |-> "__init__", returned |-> 0, opened |-> << >> ]

TempsEnterScope ==
  /\ temps.stage = "calls" /\ temps.calls < MaxCalls
  /\ temps' = [temps EXCEPT !.manager = enter_scope(@),
                            !.calls = @ + 1,
                            !.last = "enter_scope",
                            !.opened = Append(@, {})]
  /\ UNCHANGED << vm_vars, codec, ark, strings, slot, compiler, worker >>

TempsAllocate ==
  /\ temps.stage = "calls" /\ temps.calls < MaxCalls
  /\ temps' = [temps EXCEPT
                 !.manager = allocate_temp_var(@),
                 !.calls = @ + 1,
                 !.last = "allocate_temp_var",
                 !.returned = next_temp_var(temps.manager),
                 !.opened =
                    IF @ = << >> THEN @
                    ELSE [@ EXCEPT ![Len(@)] =
                            @ \cup {next_temp_var(temps.manager)}]]
  /\ UNCHANGED << vm_vars, codec, ark, strings, slot, compiler, worker >>

TempsExitScope ==
  /\ temps.stage = "calls" /\ temps.calls < MaxCalls
  /\ temps' = [temps EXCEPT
                 !.manager = exit_scope(@),
                 !.calls = @ + 1,
                 !.last = "exit_scope",
                 !.opened = IF @ = << >> THEN @
                            ELSE SubSeq(@, 1, Len(@) - 1)]
  /\ UNCHANGED << vm_vars, codec, ark, strings, slot, compiler, worker >>

NextTemps == TempsEnterScope \/ TempsAllocate \/ TempsExitScope
SpecTemps == InitTemps /\ [][NextTemps]_vars

\* ============================== uw_cnv_compiler.py on a hand-written file
\* an assembly file with one branch to a label: MaxLead NOPs at most in
\* front, MaxGap at most between the label and the branch
MaxLead == 2
MaxGap == 5
BranchNames == {"BEQ", "BNE", "BRA"}
Nops(n) == [k \in 1 .. n |-> chars("NOP")]
\* the label line in front of the branch (backward) or behind it
branch_text(name, backward, lead, gap) ==
  LET branch == chars(name) \o chars(" target")
      written ==
        << chars("; Slot: 0001"), chars("; String Block: 1"), << >> >>
        \o Nops(lead)
        \o (IF backward
            THEN << chars("target:") >> \o Nops(gap) \o << branch >>
            ELSE << branch >> \o Nops(gap) \o << chars("target:") >>)
        \o << chars("EXIT_OP") >>
  IN concat([k \in 1 .. Len(written) |-> written[k] \o Newline])

InitCompiler ==
  /\ VMIdle
  /\ codec = Idle /\ ark = Idle /\ strings = Idle /\ slot = Idle
  /\ temps = Idle /\ worker = Idle
  /\ \E name \in BranchNames, backward \in BOOLEAN, lead \in 0 .. MaxLead,
        gap \in 0 .. MaxGap :
       compiler = [ stage |-> "asm", name |-> name, backward |-> backward,
                    lead |-> lead, gap |-> gap,
                    asm |-> branch_text(name, backward, lead, gap),
                    parsed |-> NotParsed, output |-> << >> ]

\* main: compiler.parse_asm()
CompilerParseAsm ==
  /\ compiler.stage = "asm"
  /\ LET parsed == parse_asm(compiler.asm)
     IN compiler' = [compiler EXCEPT
                       !.stage = IF parsed.ok THEN "parsed" ELSE "failed",
                       !.parsed = parsed]
  /\ UNCHANGED << vm_vars, codec, ark, strings, slot, temps, worker >>

\* main: compiler.write_binary(), which returns False when build_binary
\* raises
CompilerWriteBinary ==
  /\ compiler.stage = "parsed"
  /\ compiler' = IF build_binary_raises(compiler.parsed)
                 THEN [compiler EXCEPT !.stage = "failed"]
                 ELSE [compiler EXCEPT
                         !.stage = "compiled",
                         !.output = build_binary(compiler.parsed)]
  /\ UNCHANGED << vm_vars, codec, ark, strings, slot, temps, worker >>

NextCompiler == CompilerParseAsm \/ CompilerWriteBinary
SpecCompiler == InitCompiler /\ [][NextCompiler]_vars

\* ===================================================== TranslationWorker
\* uw-strings-translator.py: translate_strings queues the non-blank strings
\* of the blocks, starts num_threads threads running worker_thread, waits in
\* input_queue.join(), then sets the stop event and returns the blocks.
MaxStrings == 3
MaxThreads == 2
BatchSizes == {1, 2}
\* the strings of a block: a blank one, one the backend translates and one
\* for which the backend's translate raises
WorkerTexts == {" ", "ok", "bad"}
RECURSIVE SeqsUpTo(_, _)
SeqsUpTo(S, n) ==
  IF n = 0 THEN { << >> }
  ELSE SeqsUpTo(S, n - 1)
       \cup { Append(q, x) : q \in { p \in SeqsUpTo(S, n - 1) : Len(p) = n - 1 },
                             x \in S }
\* text.strip() of these strings
stripped(text) == IF text = " " THEN "" ELSE text
backend_raises(text) == text = "bad"
backend_translate(text) == "[Test] " \o text

NoThread == [pc |-> "none", items |-> << >>]
\* TranslationWorker.__init__
NewWorker(strings_, num_threads, batch_size) ==
  [stage |-> "constructed", blocks |-> strings_, num_threads |-> num_threads,
   batch_size |-> batch_size, input_queue |-> << >>, unfinished_tasks |-> 0,
   output_dict |-> << >>, processed_items |-> 0, total_items |-> 0,
   stop_event |-> FALSE, workers |-> [t \in 1 .. MaxThreads |-> NoThread]]

InitWorker ==
  /\ VMIdle
  /\ \E strings_ \in SeqsUpTo(WorkerTexts, MaxStrings), num_threads \in 1 .. MaxThreads,
        batch_size \in BatchSizes :
       worker = NewWorker(strings_, num_threads, batch_size)
  /\ codec = Idle /\ ark = Idle /\ strings = Idle /\ slot = Idle
  /\ temps = Idle /\ compiler = Idle

\* the (index, text) items translate_strings puts on the queue
RECURSIVE queued_from(_, _)
queued_from(strings_, i) ==
  IF i > Len(strings_) THEN << >>
  ELSE (IF stripped(strings_[i]) # "" THEN << [index |-> i - 1, text |-> strings_[i]] >>
        ELSE << >>) \o queued_from(strings_, i + 1)

\* translate_strings up to input_queue.join(): the puts and start_workers
TranslateStrings ==
  /\ worker.stage = "constructed"
  /\ worker' = [worker EXCEPT
       !.stage = "joining",
       !.input_queue = queued_from(worker.blocks, 1),
       !.unfinished_tasks = Len(queued_from(worker.blocks, 1)),
       !.total_items = Len(queued_from(worker.blocks, 1)),
       !.stop_event = FALSE,
       !.workers = [t \in 1 .. MaxThreads |->
                      IF t <= worker.num_threads
                      THEN [pc |-> "loop", items |-> << >>] ELSE NoThread]]
  /\ UNCHANGED << vm_vars, codec, ark, strings, slot, temps, compiler >>

\* worker_thread: the test of the while loop
WorkerLoop(t) ==
  /\ worker.workers[t].pc = "loop"
  /\ worker' = [worker EXCEPT !.workers[t].pc =
                  IF worker.stop_event THEN "stopped" ELSE "get"]
  /\ UNCHANGED << vm_vars, codec, ark, strings, slot, temps, compiler >>

\* input_queue.get returns an item; the batch is full after batch_size
WorkerGet(t) ==
  /\ worker.workers[t].pc = "get"
  /\ worker.input_queue # << >>
  /\ LET items == Append(worker.workers[t].items, Head(worker.input_queue))
     IN worker' = [worker EXCEPT
          !.input_queue = Tail(@),
          !.workers[t] = [pc |-> IF Len(items) = worker.batch_size
                                 THEN "process" ELSE "get",
                          items |-> items]]
  /\ UNCHANGED << vm_vars, codec, ark, strings, slot, temps, compiler >>

\* input_queue.get times out with queue.Empty: the batch ends; an empty
\* batch goes back to the test of the loop
WorkerEmpty(t) ==
  /\ worker.workers[t].pc = "get"
  /\ worker.input_queue = << >>
  /\ worker' = [worker EXCEPT !.workers[t].pc =
                  IF worker.workers[t].items = << >> THEN "loop"
                  ELSE "process"]
  /\ UNCHANGED << vm_vars, codec, ark, strings, slot, temps, compiler >>

\* the next item of the batch: translate, store under the lock, task_done;
\* an exception of translate leaves the for loop for the except clause of
\* the while loop, which prints it
WorkerTranslate(t) ==
  /\ worker.workers[t].pc = "process"
  /\ LET item == Head(worker.workers[t].items)
         rest == Tail(worker.workers[t].items)
     IN IF backend_raises(item.text)
        THEN worker' = [worker EXCEPT
               !.workers[t] = [pc |-> "loop", items |-> << >>]]
        ELSE worker' = [worker EXCEPT
               !.output_dict =
                  Append(@, [index |-> item.index,
                             translated |-> backend_translate(item.text)]),
               !.processed_items = @ + 1,
               !.unfinished_tasks = @ - 1,
               !.workers[t] = [pc |-> IF rest = << >> THEN "loop"
                                      ELSE "process",
                               items |-> rest]]
  /\ UNCHANGED << vm_vars, codec, ark, strings, slot, temps, compiler >>

\* input_queue.join() returns once every put has had its task_done; then
\* stop_workers sets the stop event
JoinReturns ==
  /\ worker.stage = "joining"
  /\ worker.unfinished_tasks = 0
  /\ worker' = [worker EXCEPT !.stage = "stopping", !.stop_event = TRUE]
  /\ UNCHANGED << vm_vars, codec, ark, strings, slot, temps, compiler >>

\* the translated strings written into the blocks
RECURSIVE updated(_, _)
updated(strings_, output_dict) ==
  IF output_dict = << >> THEN strings_
  ELSE updated([strings_ EXCEPT ![Head(output_dict).index + 1] =
                   Head(output_dict).translated],
               Tail(output_dict))

\* stop_workers has joined the threads, each for at most a second; the
\* blocks are updated and returned
StopWorkersReturn ==
  /\ worker.stage = "stopping"
  /\ worker' = [worker EXCEPT
       !.stage = "returned",
       !.blocks = updated(worker.blocks, worker.output_dict)]
  /\ UNCHANGED << vm_vars, codec, ark, strings, slot, temps, compiler >>

ThreadStep(t) ==
  WorkerLoop(t) \/ WorkerGet(t) \/ WorkerEmpty(t) \/ WorkerTranslate(t)
MainStep == TranslateStrings \/ JoinReturns \/ StopWorkersReturn
NextWorker == MainStep \/ \E t \in 1 .. MaxThreads : ThreadStep(t)
\* the main thread and every worker thread keep being scheduled
SpecWorker ==
  /\ InitWorker /\ [][NextWorker]_vars
  /\ WF_vars(MainStep)
  /\ \A t \in 1 .. MaxThreads : WF_vars(ThreadStep(t))

\* ================================================================ claims
\* an iteration of the execute loop began in this step (one instruction)
InstructionStep == steps' = steps + 1
\* an iteration of the execute loop ended in this step without an exception
IterationDone ==
  /\ fault' = "" /\ io_wait' = NoWait
  /\ InstructionStep \/ io_wait # NoWait

\* the assembly line that was assembled at word offset p, 0 when none
LineStart(i) == WordsIn(asm_file.lines, 1, i - 1)
LineAt(p) ==
  IF \E i \in 1 .. Len(asm_file.lines) :
       asm_file.lines[i].t # "label" /\ LineStart(i) = p
  THEN CHOOSE i \in 1 .. Len(asm_file.lines) :
         asm_file.lines[i].t # "label" /\ LineStart(i) = p
  ELSE 0
\* the instruction at pc is BEQ, BNE or BRA written with a defined label
LabelBranchAt(p) ==
  /\ LineAt(p) # 0
  /\ asm_file.lines[LineAt(p)].t = "opsym"
  /\ asm_file.lines[LineAt(p)].op \in BranchOps
  /\ asm_file.lines[LineAt(p)].sym \in DOMAIN labels
BranchTaken ==
  CASE CodeAt(pc) = 16 -> top(Machine) = 0
    [] CodeAt(pc) = 17 -> top(Machine) # 0
    [] OTHER -> TRUE

\* C1: a taken BEQ, BNE or BRA whose operand is a label L sets PC to the
\* word offset of L.
C1_TakenBranchReachesLabel ==
  [][ ( /\ Running /\ InCode(pc) /\ LabelBranchAt(pc) /\ BranchTaken
        /\ InstructionStep /\ fault' = "" )
      => pc' = labels[asm_file.lines[LineAt(pc)].sym] ]_vars

\* C2: a compiled if/elseif/else chain runs exactly one branch body, the
\* first whose condition is non-zero or else the else body, and control
\* then continues after endif: the program "let c = q; if c == 1 say B1
\* elseif c == 2 say B2 ... else say E endif; say Z" has said exactly the
\* text of that branch and then Z when it has finished.
ExpectedBranch ==
  IF program.q <= program.p + 1 THEN BranchText(program.q) ELSE "E"
C2_ExactlyOneBranchRuns ==
  ( program.kind = "ifchain" /\ phase = "returned" /\ finished )
  => transcript = << ExpectedBranch, "Z" >>

\* the VM is about to execute the EXIT_OP that ends the main program
AtMainExit ==
  /\ IsScript(program) /\ phase = "executing" /\ fault = ""
  /\ io_wait = NoWait /\ ~finished
  /\ pc = WordsIn(asm_file.main_lines, 1, Len(asm_file.main_lines)) - 1
  /\ InCode(pc) /\ CodeAt(pc) = 38

\* C3: in every compiled program the stack is balanced when the main
\* program reaches EXIT_OP: SP equals BP or, read against the frame
\* initialize_memory sets up, SP is back at its initial value.
C3_BalancedAtMainExit ==
  AtMainExit
  => ( stack_pointer = base_pointer
       \/ stack_pointer = initial_stack_pointer )

\* C4: with "function f(x, y) return x * 2 + y endfunction" the statement
\* "let r = f(a, b)" leaves r == a * 2 + b (10 for f(3, 4)); r is the first
\* global variable, the cell at the initial BP.
C4_CallYieldsReturnValue ==
  ( program.kind = "function" /\ phase = "returned" /\ finished )
  => Cell(memory, memory_slots) = program.p * 2 + program.q

\* C5: a RET that matches an outstanding CALL restores the call_level of
\* before the CALL and sets PC to the word that follows the CALL.
C5_RetMatchesCall ==
  [][ ( /\ Fetched(21) /\ InstructionStep /\ fault' = ""
        /\ call_frames # << >> )
      => /\ pc' = call_frames[Len(call_frames)].ret
         /\ call_level' = call_frames[Len(call_frames)].level ]_vars

\* the instruction fetched in this step
RetStep == Fetched(21) /\ InstructionStep
ExitStep == Fetched(38) /\ InstructionStep
UnknownOpcodeStep ==
  /\ Running /\ InCode(pc) /\ CodeAt(pc) \notin HandledOpcodes
  /\ InstructionStep
UnknownImportStep ==
  /\ Fetched(20) /\ InCode(pc + 1)
  /\ operand(Machine) \notin ImportedFunctionIds
  /\ InstructionStep

\* C6: execution ends (finished) on EXIT_OP, on a RET executed with no
\* CALL outstanding, or when PC passes the end of the code; once finished
\* no further instruction executes.
C6_StrayRetTerminates ==
  [][ /\ ExitStep => finished'
      /\ (RetStep /\ call_frames = << >> /\ fault' = "") => finished'
      /\ (IterationDone /\ pc' >= Len(code)) => finished'
      /\ finished => (finished' /\ steps' = steps) ]_vars

\* C6, amended: execution ends on EXIT_OP, on a RET that takes call_level
\* below 0, or when PC passes the end of the code, and on nothing else;
\* call_level starts at 1, so the first RET with no CALL outstanding pops a
\* return address and execution continues there.  Once finished no further
\* instruction executes.
C6_TerminationPoints ==
  [][ /\ ExitStep => finished'
      /\ (RetStep /\ fault' = "")
         => ( finished' <=> (call_level - 1 < 0 \/ pc' >= Len(code)) )
      /\ (RetStep /\ fault' = "" /\ call_level - 1 >= 0)
         => ( pc' = top(Machine) /\ stack_pointer' = stack_pointer - 1 )
      /\ (IterationDone /\ pc' >= Len(code)) => finished'
      /\ (~finished /\ finished')
         => ( ExitStep \/ (RetStep /\ call_level - 1 < 0)
              \/ (IterationDone /\ pc' >= Len(code)) )
      /\ finished => (finished' /\ steps' = steps) ]_vars
\* the second RET of "START; PUSHI 4; RET; PUSHI 7; RET; NOP" ended the run
C6_SecondStrayRetEnded ==
  /\ program.kind = "stray_ret" /\ finished /\ call_level = 0 - 1
  /\ pc = 6 /\ steps = 5 /\ fault = ""

\* the host's resume_conversation happened in this step
ResumeStep == resumes' = resumes + 1

\* C7: resume of a VM that waits for a response sets result_register to
\* the host's value, makes the VM run again, and continues where it was
\* suspended: memory and stack as they were, PC at the suspended CALLI or
\* at the instruction after it.
C7_ResumeContinues ==
  [][ (ResumeStep /\ waiting_response)
      => /\ result_register' \in HostChoices
         /\ ~waiting_response' /\ phase' = "executing"
         /\ memory' = memory /\ stack_pointer' = stack_pointer
         /\ base_pointer' = base_pointer
         /\ pc' \in {pc, pc + 2} ]_vars

\* C8: babl_menu, babl_fmenu and babl_ask leave the VM waiting for a
\* response with execute() returned, and only the host's resume ends the
\* wait.
C8_OnlyResumeEndsWait ==
  [][ /\ (waiting_response /\ ~waiting_response') => ResumeStep
      /\ (~waiting_response /\ waiting_response')
         => (Fetched(20) /\ operand(Machine) \in BlockingIds)
      /\ (waiting_response /\ phase = "executing")
         => (phase' = "returned" /\ UNCHANGED machine_vars) ]_vars

\* C9: in a compiled program a CALLI executed with the count n on top of
\* n argument addresses leaves SP at its value before the n addresses were
\* pushed, plus 1: the handler popped the count and the n addresses, the
\* VM pushed result_register once.
C9_CalliStackEffect ==
  [][ /\ ( /\ IsScript(program) /\ Fetched(20) /\ InCode(pc + 1)
           /\ operand(Machine) \in ModelledIds
           /\ InstructionStep /\ IterationDone )
         => stack_pointer' = (stack_pointer - 1 - top(Machine)) + 1
      /\ ( /\ IsScript(program) /\ io_wait # NoWait /\ IterationDone )
         => stack_pointer' = (io_wait.sp - 1 - io_wait.count) + 1 ]_vars

\* C10: a CALLI of an id that is not registered and an opcode without a
\* handler are errors that stop execution with PC at the faulting
\* instruction.
C10_ErrorsStopAtFaultingPc ==
  [][ (UnknownOpcodeStep \/ UnknownImportStep)
      => /\ pc' = pc /\ fault' # ""
         /\ phase' # "executing" ]_vars

\* C10, amended: neither is an error.  A CALLI of an unregistered id
\* prints a warning, pushes result_register unchanged and moves PC on by
\* 2; an opcode without a handler is reported and skipped with PC moved on
\* by 1; execution continues in both cases.
C10_UnknownsAreSkipped ==
  [][ /\ UnknownOpcodeStep
         => /\ pc' = pc + 1 /\ fault' = "" /\ phase' = "executing"
            /\ stack_pointer' = stack_pointer /\ memory' = memory
            /\ result_register' = result_register
      /\ (UnknownImportStep /\ InList(stack_pointer))
         => /\ pc' = pc + 2 /\ fault' = "" /\ phase' = "executing"
            /\ stack_pointer' = stack_pointer + 1
            /\ Cell(memory', ListIndex(stack_pointer)) = result_register
            /\ result_register' = result_register ]_vars
\* "START; PUSHI 0; CALLI 99; POP; STRCMP; RESPOND_OP; FROB; NOP" ran past
\* the unregistered import and both opcodes without a handler
C10_RanPastUnknowns ==
  /\ program.kind = "errors" /\ phase = "executing" /\ fault = ""
  /\ pc = 8 /\ steps = 6 /\ stack_pointer = initial_stack_pointer + 1

\* C11: for every byte string x, the empty one, runs longer than 130 bytes
\* and literal stretches longer than 128 bytes included,
\* decompress(compress(x)) == x.
C11_RoundTrip ==
  codec.stage = "decompressed" => codec.output = codec.input_data
\* a string with a run and a literal stretch both longer than their limits
\* went through: the compressed form holds a full run token (count byte
\* 255) and a full literal token (count byte 127)
C11_LongRunAndLiteralDone ==
  /\ codec.stage = "decompressed"
  /\ Len(codec.input_data) > MaxRunLength + MaxLiteralLength
  /\ \E i \in 1 .. Len(codec.compressed) : codec.compressed[i] = 255
  /\ \E i \in 1 .. Len(codec.compressed) : codec.compressed[i] = 127

\* C12: installing the compiled conversation into slot i yields an archive
\* with the same number of slots, in which slot i decodes to exactly the new
\* compilation and every other slot decodes as it did in the original.
\* The written file is read either as it is or decompressed.
InstalledSlots ==
  LET before == extract_all(ark.original.data).slots
  IN [i \in 1 .. Len(before) |->
        IF i = ark.slot_idx + 1
        THEN extract_conversation(build_binary(ark.conv), 0)
        ELSE before[i]]
C12_OtherSlotsKept ==
  (ark.stage = "returned" /\ ark.result = "True") =>
    \E data \in { ark.cnv_ark_file.data, decompress(ark.cnv_ark_file.data) } :
      /\ ~extract_all(data).error
      /\ extract_all(data).slots = InstalledSlots

\* C13: after any update attempt, successful or failed at any step, the
\* archive path holds the complete original archive or the complete updated
\* archive.
C13_OriginalOrUpdated ==
  (ark.stage = "returned" /\ ark.cnv_ark_file # ark.original) =>
    /\ ark.result = "True"
    /\ ark.cnv_ark_file = OnDisk(written_data)

\* C14: every string produced by decoding with a tree, encoded with the code
\* map built from that tree and decoded again, is the same string.
C14_EncodeDecode ==
  strings.stage = "loaded" =>
    \A b \in DOMAIN strings.allstrings :
      \A k \in 1 .. Len(strings.allstrings[b]) :
        LET S == strings.allstrings[b][k]
        IN decode_string(
             strings.huffman_nodes,
             encode_string(_generate_huffman_codes(strings.huffman_nodes), S),
             0) = S
\* a loaded block holds a string of several characters whose encoding does
\* not end on a byte boundary, under the tree of unequal code lengths
C14_DecodedLongString ==
  /\ strings.stage = "loaded"
  /\ strings.huffman_nodes = SkewedTree
  /\ \E b \in DOMAIN strings.allstrings :
       \E k \in 1 .. Len(strings.allstrings[b]) :
         /\ Len(strings.allstrings[b][k]) = MaxStringLen
         /\ strings.allstrings[b][k][1] = 10

\* C15: extracting an archive to text, packing the text and extracting
\* again yields the same block ids and, per block, the same strings in the
\* same order.
C15_ExtractPackExtract ==
  (strings.round = 2 /\ strings.stage = "loaded") =>
    strings.allstrings = strings.first

\* the cell of a global variable of the compiled program, and of the k-th
\* element of a global array
VariableOffset(name) == generate(Source(program)).global_variables[name]
Variable(name) == Cell(memory, base_pointer + VariableOffset(name))
Element(name, k) == Cell(memory, base_pointer + VariableOffset(name) + k)

\* C16: "let a = [10, 20, 30, 40, 50]; let v = a[2]" leaves v = 30;
\* "a[1] = 25; let v = a[1]" leaves v = 25 and changes no other element.
C16_ArrayAccess ==
  /\ (AtMainExit /\ program.kind = "array_read") => Variable("v") = 30
  /\ (AtMainExit /\ program.kind = "array_write") =>
       /\ Variable("v") = 25
       /\ [k \in 0 .. 4 |-> Element("a", k)]
          = [k \in 0 .. 4 |-> IF k = 1 THEN 25 ELSE 10 * (k + 1)]

\* C17: "let i = 0; let s = 0; while i < 5 s += i; i += 1 endwhile"
\* terminates with s = 10 and i = 5: when the loop test fails the loop is
\* left for the end of the program, with those values.
C17_WhileTerminates ==
  [][ ( /\ program.kind = "while_sum" /\ Running /\ InCode(pc)
        /\ CodeAt(pc) = 16 /\ top(Machine) = 0
        /\ InstructionStep /\ fault' = "" )
      => ( /\ pc' = WordsIn(asm_file.main_lines, 1,
                            Len(asm_file.main_lines)) - 1
           /\ Variable("s") = 10 /\ Variable("i") = 5 ) ]_vars

RECURSIVE jump_targets(_, _)
jump_targets(code_bytes, pos) ==
  IF pos + 2 > Len(code_bytes) THEN {}
  ELSE LET opcode == code_bytes[pos + 1]
           value == rd16(code_bytes, pos + 2)
       IN (IF opcode \notin JumpOpcodes \/ pos + 4 > Len(code_bytes) THEN {}
           ELSE IF opcode \in {15, 19} THEN {value}
           ELSE {pos \div 2 + 2 + value})
          \cup jump_targets(code_bytes, pos + 2 + operands(opcode) * 2)
\* the positions, in words, where the assembly text has a label
label_positions(text) ==
  LET lbls == find_labels(lines_of(text), 1, 0)
  IN { lbls[k].pos : k \in 1 .. Len(lbls) }
\* C19: a slot extracted to assembly text and compiled back is the slot
\* again: the compilation succeeds and has the string block, memory slots,
\* import count, code size, import records and code words of the slot, and
\* the text has a label at every jump, branch and call target inside the
\* code.
C19_SlotRoundTrip ==
  /\ slot.stage # "failed"
  /\ slot.stage \in {"written", "parsed", "compiled"} =>
       \A t \in jump_targets(slot.conversation.code_data, 0) :
         2 * t < Len(slot.conversation.code_data) =>
           t \in label_positions(slot.asm)
  /\ slot.stage = "compiled" =>
       LET again == extract_conversation(slot.output, 0)
       IN /\ ~again.error
          /\ again.string_block = slot.conversation.string_block
          /\ again.memory_slots = slot.conversation.memory_slots
          /\ again.num_imports = slot.conversation.num_imports
          /\ again.code_size = slot.conversation.code_size
          /\ again.imports = slot.conversation.imports
          /\ again.code_data = slot.conversation.code_data

\* C20: every value the VM pushes or stores is a 16-bit cell: the results
\* of OPADD, OPSUB, OPMUL and OPNEG wrap modulo 2^16.
ArithmeticOps ==
  { get_opcode("OPADD"), get_opcode("OPSUB"), get_opcode("OPMUL"),
    get_opcode("OPNEG") }
C20_SixteenBitCells ==
  [][ ( /\ Running /\ InCode(pc) /\ CodeAt(pc) \in ArithmeticOps
        /\ InstructionStep /\ fault' = "" )
      => ( /\ Cell(memory', stack_pointer' - 1) >= 0
           /\ Cell(memory', stack_pointer' - 1) < 65536 ) ]_vars

\* the indices of the strings the analyzer samples
sample_starts(data) ==
  LET infos == 2 + 4 * rd16(data, 0) + 2
      offset(k) == rd32(data, infos + 6 * (k - 1) + 2)
  IN { offset(k) + 2 + rd16(data, offset(k)) * 2 + rd16(data, offset(k) + 2) :
         k \in sampled_blocks(data) }
\* C21: decoding a string ends at the end marker, or, when the data end
\* first, with an error instead of a string: neither an archive that was
\* loaded nor one whose strings were sampled has a decoded string whose bits
\* ran out before its end marker.
C21_DecodeEndsOrFails ==
  /\ strings.stage = "loaded" =>
       \A pos \in string_starts(strings.pak) :
         ~ends_early_from(strings.huffman_nodes, strings.pak, pos, 0, 0)
  /\ strings.stage = "sampled" =>
       \A pos \in sample_starts(strings.pak) :
         ~ends_early_from(strings.huffman_nodes, strings.pak, pos, 0, 0)

\* the lowest cell at or above the base that is not in a set of cells
LowestFree(allocated) ==
  CHOOSE c \in base_temp_var .. base_temp_var + Cardinality(allocated) :
    /\ c \notin allocated
    /\ \A d \in base_temp_var .. c - 1 : d \in allocated
\* C22: allocate_temp_var returns the lowest cell at or above the base that
\* is not allocated and allocates it, and exit_scope releases exactly the
\* cells that were handed out in the scope it closes.
C22_LowestFreeFirst ==
  [][ /\ ( temps'.calls # temps.calls /\ temps'.last = "allocate_temp_var" )
         => /\ temps'.returned = LowestFree(temps.manager.allocated_temps)
            /\ temps'.manager.allocated_temps
                 = temps.manager.allocated_temps \cup {temps'.returned}
      /\ ( temps'.calls # temps.calls /\ temps'.last = "exit_scope"
           /\ temps.opened # << >> )
         => /\ temps'.manager.allocated_temps
                 = temps.manager.allocated_temps
                   \ temps.opened[Len(temps.opened)]
            /\ temps.opened[Len(temps.opened)]
                 \subseteq temps.manager.allocated_temps ]_vars
\* a cell released by exit_scope was handed out again while a higher one
\* is still released
C22_ReusedCell ==
  /\ temps.stage = "calls"
  /\ temps.last = "allocate_temp_var"
  /\ temps.returned = base_temp_var + 1
  /\ temps.manager.freed_temps = {base_temp_var + 2}

\* whether a stream stops inside a token: after the count byte of a run, or
\* before the last byte a literal token announces (the tokens from index i,
\* counted from 0)
RECURSIVE IsTruncated(_, _)
IsTruncated(stream, i) ==
  IF i >= Len(stream) THEN FALSE
  ELSE IF stream[i + 1] >= 128 THEN i + 1 >= Len(stream)
                                    \/ IsTruncated(stream, i + 2)
  ELSE i + 1 + stream[i + 1] + 1 > Len(stream)
       \/ IsTruncated(stream, i + 1 + stream[i + 1] + 1)
\* C23: decompress rejects a truncated stream with an error: it does not
\* come back with output for a stream that stops inside a token.
C23_TruncatedRejected ==
  ~(codec.stage = "decompressed" /\ IsTruncated(codec.compressed, 0))

\* C24: in a program whose function has no parameters and a return
\* statement, the RET of the return continues at the word after the CALL
\* with BP and SP as they were just before the CALL.
C24_ReturnRestoresCaller ==
  [][ ( /\ program.kind = "noparam_return" /\ Fetched(21)
        /\ InstructionStep /\ fault' = "" /\ call_frames # << >> )
      => /\ pc' = call_frames[Len(call_frames)].ret
         /\ base_pointer' = call_frames[Len(call_frames)].bp
         /\ stack_pointer' = call_frames[Len(call_frames)].sp ]_vars

\* the filtermenu statement of the program "filtermenu", and the VM about to
\* execute the CALLI of babl_fmenu compiled from it: the count on top of
\* the stack, the strings pointer below it, the flags pointer below that
TheFilterMenu == Script("filtermenu").children[2]
AtFmenuCall ==
  /\ program.kind = "filtermenu" /\ phase = "executing" /\ fault = ""
  /\ io_wait = NoWait /\ Fetched(20) /\ InCode(pc + 1)
  /\ operand(Machine) = 1
fmenu_strings_ptr == second(Machine)
fmenu_flags_ptr == top(pop(pop(Machine)))
\* C25: when babl_fmenu is called for a filtermenu of n >= 2 items, the
\* n + 1 cells of the strings array and the n cells of the flags array are
\* disjoint, strings[i] is the id of the i-th item's text and flags[i] is
\* the i-th flag.
C25_FmenuArraysIntact ==
  AtFmenuCall
  => LET n == Len(TheFilterMenu.items)
     IN /\ (fmenu_strings_ptr .. fmenu_strings_ptr + n)
           \cap (fmenu_flags_ptr .. fmenu_flags_ptr + n - 1) = {}
        /\ \A i \in 0 .. n - 1 :
             /\ get_string_raw(current_string_block,
                               get_mem(Machine, fmenu_strings_ptr + i))
                = TheFilterMenu.items[i + 1].text
             /\ get_mem(Machine, fmenu_flags_ptr + i)
                = TheFilterMenu.flags[i + 1].value

\* the positions in a list of assembly lines of its SAY_OP lines
SayLines(lines) == { k \in 1 .. Len(lines) : lines[k] = I0("SAY_OP") }
\* the operand of the PUSHI in front of the j-th SAY_OP of the main program
SayOperand(j) ==
  LET k == CHOOSE k \in SayLines(asm_file.main_lines) :
             Cardinality({ h \in SayLines(asm_file.main_lines) : h <= k }) = j
  IN asm_file.main_lines[k - 1].num
\* the programs that say the literal "HP: " on its own and in "HP: " + hp,
\* and which of their say statements is the one on its own
LiteralPrograms == { "literal_reuse", "literal_earlier" }
PlainSay == IF program.kind = "literal_reuse" THEN 2 ELSE 1
\* C26: a program that uses a string literal both on its own and in a
\* "literal + variable" expression compiles, and the PUSHI of the use on
\* its own names a string-table entry whose text is the literal.
C26_LiteralUsesKeepText ==
  program.kind \in LiteralPrograms
  => /\ phase # "compile_error"
     /\ phase = "files"
        => get_string_raw(strings_file[1], SayOperand(PlainSay)) = "HP: "

\* the programs with the statement  menu m ["yes", "no"]: after another
\* literal, as the first statement, and after a say of its second item
MenuPrograms == { "menu", "menu_first", "menu_said" }
\* the VM about to execute the CALLI of babl_menu: the count on top of the
\* stack, the strings pointer below it
AtMenuCall ==
  /\ program.kind \in MenuPrograms /\ phase = "executing" /\ fault = ""
  /\ io_wait = NoWait /\ Fetched(20) /\ InCode(pc + 1)
  /\ operand(Machine) = 0
\* the texts babl_menu prints, in the order it prints them
menu_texts ==
  LET options == menu_options(Machine, second(Machine), 0)
  IN [j \in 1 .. Len(options) |->
        get_string_raw(current_string_block,
                       get_mem(Machine, second(Machine) + options[j] - 1))]
\* C27: babl_menu presents all the items of the menu statement in source
\* order, whatever their string ids, the id 0 of the program's first
\* literal included.
C27_MenuPresentsAllItems == AtMenuCall => menu_texts = << "yes", "no" >>

\* C28: translate_strings eventually returns, whatever the strings, the
\* number of threads and the batch size, also when the backend's translate
\* raises for some string.
C28_EventuallyReturns == <>(worker.stage = "returned")

\* an archive file as the extractor reads it: decompressed when
\* is_compressed says so, then every slot of the table extracted
read_back(data) ==
  extract_all(IF is_compressed(data) THEN decompress(data) ELSE data)
Readable(data) ==
  /\ ~read_back(data).error
  /\ \A i \in 1 .. Len(read_back(data).slots) :
       read_back(data).slots[i] # NotExtracted
\* C29: the file a successful update_cnv_ark leaves is classified by
\* is_compressed as the mode it was written in, and, the original archive
\* having been readable, every slot of it can be read back.
C29_ModeStable ==
  ( /\ ark.stage = "returned" /\ ark.result = "True"
    /\ Readable(ark.original.data) )
  => /\ is_compressed(ark.cnv_ark_file.data) = ark.is_compressed
     /\ Readable(ark.cnv_ark_file.data)

\* the word offset of the branch in the code and of its label
branch_at == IF compiler.backward THEN compiler.lead + compiler.gap
             ELSE compiler.lead
target_at == IF compiler.backward THEN compiler.lead
             ELSE compiler.lead + 2 + compiler.gap
\* the operand word of the branch in the compiled binary (16 header bytes,
\* no imports)
branch_operand == rd16(compiler.output, 16 + 2 * (branch_at + 1))
\* C30: assembly whose branch names a label defined before it compiles, and
\* the operand word is target - (current + 2) as 16-bit two's complement.
C30_BackwardBranchCompiles ==
  compiler.backward
  => /\ compiler.stage # "failed"
     /\ compiler.stage = "compiled"
        => branch_operand = 65536 + (target_at - (branch_at + 2))
====
